---- MODULE Spec2Model ----
(***************************************************************************)
(* Copy-trade simulation engine of polymarket-tool                         *)
(* (src/src/lib/copyTradeSim.ts, simulateCopyTrades).                      *)
(*                                                                         *)
(* One invocation of simulateCopyTrades is a run of the state machine      *)
(*   Invoke (lines 124-158)  ->  ProcessTrade* (the for loop, 166-297)     *)
(*   ->  Finish (299-423),                                                 *)
(* or ends in pc = "thrown" when a BigInt operation raises a RangeError.   *)
(*                                                                         *)
(* JavaScript numbers are modelled as exact decimal fractions [n, d] with  *)
(* d = 0 standing for the non-finite values (n = 0: NaN, n = 1: Infinity,  *)
(* n = -1: -Infinity).  BigInt values are integers; the helper MulDivQR    *)
(* computes products exactly within TLC's 32-bit integers; the inputs are  *)
(* bounded so that every scaled value fits.  Display metadata of a trade   *)
(* (title, slug, outcome label) is not modelled; a skip reason is a record *)
(* of the values its text is built from.                                   *)
(***************************************************************************)
EXTENDS Integers, Sequences, FiniteSets, TLC

VARIABLES
    trades,               \* argument: DataApiTrade[]
    options,              \* argument: CopyTradeSimOptions
    pc,                   \* "ready" | "loop" | "done" | "thrown"
    normalizedTrades,     \* line 133
    idx,                  \* position of the for loop (line 166) in normalizedTrades
    cash,                 \* line 138
    positions,            \* line 139, Map<string, PositionState>
    markedValueByKey,     \* line 140
    markedSum,            \* line 141
    realized,             \* line 142
    equity,               \* line 143
    skippedTradeCount,    \* line 145
    partialFillCount,     \* line 146
    skippedTradeReasons,  \* line 147
    result,               \* the returned CopyTradeSimResult (<<>> until returned)
    history,              \* results of the caller's earlier invocations
    localStorage          \* the caller's stored results by cache key (storage.ts)

vars == <<trades, options, pc, normalizedTrades, idx, cash, positions,
          markedValueByKey, markedSum, realized, equity, skippedTradeCount,
          partialFillCount, skippedTradeReasons, result, history, localStorage>>

(***************************************************************************)
(* Bounds of the model                                                     *)
(***************************************************************************)
\* longest trade list passed to the engine
MaxTrades == 3

\* how often the caller repeats an invocation with the same arguments
MaxReruns == 1

\* the longest feed of SpecSkips has SkipReasonCap + MaxOverflow trades
MaxOverflow == 2

\* the longest feed of SpecMarkets
MaxMarketTrades == 5

\* trades retained by a polling merge (maxSize of useWatchlistPolling.ts)
MaxKept == 2

\* the component is followed while its cache holds at most MaxCached results
MaxCached == 1

(***************************************************************************)
(* Program constants                                                       *)
(***************************************************************************)
SCALE == 10000

SkipReasonCap == 200

(***************************************************************************)
(* Optional values: undefined is <<>>, a present value v is <<v>>.         *)
(***************************************************************************)
Undefined == <<>>

Some(v) == <<v>>

\* JavaScript's  o ?? d
OrElse(o, d) == IF o = Undefined THEN d ELSE o[1]

(***************************************************************************)
(* JavaScript numbers                                                      *)
(***************************************************************************)
Num(n, d) == [n |-> n, d |-> d]

NaN == Num(0, 0)

Infinity == Num(1, 0)

Int2Num(k) == Num(k, 1)

IsFinite(x) == x.d # 0

Sign(k) == IF k > 0 THEN 1 ELSE IF k < 0 THEN -1 ELSE 0

Abs(k) == IF k < 0 THEN -k ELSE k

\* x * y of two numbers (t.size * followRatio, line 163)
NumMul(x, y) ==
    IF IsFinite(x) /\ IsFinite(y)
    THEN Num(x.n * y.n, x.d * y.d)
    ELSE Num(Sign(x.n * y.n), 0)

clampFinite(value, fallback) == IF IsFinite(value) THEN value ELSE fallback

(***************************************************************************)
(* Exact a * b = q * d + r for 0 <= a, 0 <= b, 0 < d without leaving the   *)
(* 32-bit integers (the quotient must fit).                                *)
(***************************************************************************)
RECURSIVE HalvingQR(_, _, _)
HalvingQR(a, b, d) ==
    IF b = 0 THEN <<0, 0>>
    ELSE LET h == HalvingQR(a, b \div 2, d)
             s == 2 * h[2] + (b % 2) * a
         IN  <<2 * h[1] + (s \div d), s % d>>

MulDivQR(a, b, d) ==
    LET qa == a \div d
        ra == a % d
        qb == b \div d
        rb == b % d
        \* ra * b = ra * qb * d + ra * rb
        low == IF ra = 0 \/ rb = 0 THEN <<0, 0>>
               ELSE IF rb <= 2147483647 \div ra
                    THEN <<(ra * rb) \div d, (ra * rb) % d>>
                    ELSE HalvingQR(ra, rb, d)
    IN  <<qa * b + ra * qb + low[1], low[2]>>

\* BigInt(Math.round(v * 10_000))
toScaled(value) ==
    LET v == clampFinite(value, Int2Num(0))
        m == MulDivQR(Abs(v.n), SCALE, v.d)
    IN  IF v.n >= 0
        THEN m[1] + (IF 2 * m[2] >= v.d THEN 1 ELSE 0)
        ELSE -(m[1] + (IF 2 * m[2] > v.d THEN 1 ELSE 0))

\* Number(value) / 10_000
toNumber(value) == Num(value, SCALE)

\* (a * b) / div on BigInt: the quotient is truncated toward zero.
\* A zero divisor raises a RangeError (see mulDivThrows); callers of mulDiv
\* in this module pass div # 0.
mulDiv(a, b, div) ==
    Sign(a) * Sign(b) * Sign(div) * MulDivQR(Abs(a), Abs(b), Abs(div))[1]

mulDivThrows(a, b, div) == div = 0

(***************************************************************************)
(* Maps (Map<string, ...>): functions whose domain is the set of keys set. *)
(***************************************************************************)
EmptyMap == <<>>

MapGet(m, k, default) == IF k \in DOMAIN m THEN m[k] ELSE default

\* mutation: the entries of the map share one object
MapSetShared(m, k, v) == [x \in (DOMAIN m) \cup {k} |-> v]

MapSet(m, k, v) == [x \in (DOMAIN m) \cup {k} |-> IF x = k THEN v ELSE m[x]]

(***************************************************************************)
(* Arguments and the values derived from them (lines 125-131, 158)         *)
(***************************************************************************)
initialCapitalUsd ==
    clampFinite(OrElse(options.initialCapitalUsd, Int2Num(10000)), Int2Num(10000))

followRatio == clampFinite(OrElse(options.followRatio, Int2Num(1)), Int2Num(1))

followNotionalUsd == clampFinite(OrElse(options.followNotionalUsd, Int2Num(0)), Int2Num(0))

\* mutation: the mode is decided by the truthiness of the budget
followModeTruthy ==
    IF options.followNotionalUsd = Undefined \/ followNotionalUsd.n = 0
    THEN "ratio" ELSE "fixed"

followMode == IF options.followNotionalUsd = Undefined THEN "ratio" ELSE "fixed"

startTs == options.startTs

endTs == options.endTs

allowPartialFills == OrElse(options.allowPartialFills, TRUE)

fixedNotional == IF followMode = "fixed" THEN toScaled(followNotionalUsd) ELSE 0

\* `${t.conditionId}:${t.asset}:${t.outcomeIndex ?? ''}`; the trades of the
\* model carry no outcomeIndex
marketKey(t) == <<t.conditionId, t.asset, "">>

\* mutation: the end of the window is exclusive
isWithinRangeOpenEnd(ts, start, end) ==
    IF start # Undefined /\ ts < start[1] THEN FALSE
    ELSE IF end # Undefined /\ ts >= end[1] THEN FALSE
    ELSE TRUE

isWithinRange(ts, start, end) ==
    IF start # Undefined /\ ts < start[1] THEN FALSE
    ELSE IF end # Undefined /\ ts > end[1] THEN FALSE
    ELSE TRUE

(***************************************************************************)
(* trades.filter(...).slice().sort((a, b) => a.timestamp - b.timestamp):   *)
(* Array.prototype.sort is stable, so an element is placed behind the      *)
(* elements that compare smaller and behind the earlier elements that      *)
(* compare equal.                                                          *)
(***************************************************************************)
SortedIndex(s, i) ==
    Cardinality({j \in 1..Len(s) :
                    \/ s[j].timestamp - s[i].timestamp < 0
                    \/ (s[j].timestamp - s[i].timestamp = 0 /\ j <= i)})

SortByTimestamp(s) ==
    LET place == [i \in 1..Len(s) |-> SortedIndex(s, i)]
    IN  [p \in 1..Len(s) |-> s[CHOOSE i \in 1..Len(s) : place[i] = p]]

\* mutation: the trades before startTs are kept, to seed the opening positions
FilterIgnoringStart(s) ==
    SelectSeq(s, LAMBDA t : isWithinRange(t.timestamp, Undefined, endTs))

FilterInRange(s) == SelectSeq(s, LAMBDA t : isWithinRange(t.timestamp, startTs, endTs))

NormalizeTrades(s) == SortByTimestamp(FilterInRange(s))

(***************************************************************************)
(* The local state of one invocation, as a record                          *)
(***************************************************************************)
Engine ==
    [cash |-> cash, positions |-> positions, markedValueByKey |-> markedValueByKey,
     markedSum |-> markedSum, realized |-> realized, equity |-> equity,
     skippedTradeCount |-> skippedTradeCount, partialFillCount |-> partialFillCount,
     skippedTradeReasons |-> skippedTradeReasons, thrown |-> FALSE]

NewPosition == [qty |-> 0, avgPrice |-> 0, lastPrice |-> 0]

\* mutation: a full log drops its oldest reason to take the new one
pushSkipKeepLatest(reasons, reason) ==
    IF Len(reasons) >= SkipReasonCap
    THEN Append(Tail(reasons), reason)
    ELSE Append(reasons, reason)

pushSkip(reasons, reason) ==
    IF Len(reasons) >= SkipReasonCap THEN reasons ELSE Append(reasons, reason)

pushEquity(points, ts, cashNow, markedSumNow) ==
    Append(points, [ts |-> ts, equity |-> cashNow + markedSumNow, cash |-> cashNow])

\* desiredQtyAbs (lines 161-164)
desiredQtyAbs(t, price) ==
    IF followMode = "fixed"
    THEN mulDiv(fixedNotional, SCALE, price)
    ELSE toScaled(NumMul(t.size, followRatio))

desiredQtyAbsThrows(t, price) ==
    followMode = "fixed" /\ mulDivThrows(fixedNotional, SCALE, price)

\* mutation: the average entry price is not recomputed on a fill
NextAvgStale(state, price, addQty, nextQty) == state.avgPrice

\* mutation: the prices are added, not averaged
NextAvgAdding(state, price, addQty, nextQty) == state.avgPrice + price

\* mulDiv(state.avgPrice * state.qty + price * addQty, 1n, nextQty), lines 214, 229
NextAvg(state, price, addQty, nextQty) ==
    IF state.qty = 0 THEN price
    ELSE LET p1 == MulDivQR(state.avgPrice, state.qty, nextQty)
             p2 == MulDivQR(price, addQty, nextQty)
         IN  p1[1] + p2[1] + ((p1[2] + p2[2]) \div nextQty)

\* The closing lines of every branch: positions.set, re-mark the key,
\* markedSum, pushEquity (e.g. lines 233-238); e holds the branch's cash.
\* mutation: the previous mark of the key is not taken out of the running sum
MarkAndPushAdding(e, key, state, ts) ==
    LET nextMarked == mulDiv(IF state.lastPrice # 0 THEN state.lastPrice ELSE state.avgPrice,
                             state.qty, SCALE)
        sum        == e.markedSum + nextMarked
    IN  [e EXCEPT !.positions = MapSet(e.positions, key, state),
                  !.markedValueByKey = MapSet(e.markedValueByKey, key, nextMarked),
                  !.markedSum = sum,
                  !.equity = pushEquity(e.equity, ts, e.cash, sum)]

MarkAndPush(e, key, state, ts) ==
    LET prevMarked == MapGet(e.markedValueByKey, key, 0)
        nextMarked == mulDiv(IF state.lastPrice # 0 THEN state.lastPrice ELSE state.avgPrice,
                             state.qty, SCALE)
        sum        == e.markedSum + nextMarked - prevMarked
    IN  [e EXCEPT !.positions = MapSet(e.positions, key, state),
                  !.markedValueByKey = MapSet(e.markedValueByKey, key, nextMarked),
                  !.markedSum = sum,
                  !.equity = pushEquity(e.equity, ts, e.cash, sum)]

RecordSkip(e, reason) ==
    [e EXCEPT !.skippedTradeCount = e.skippedTradeCount + 1,
              !.skippedTradeReasons = pushSkip(e.skippedTradeReasons, reason)]

\* mutation: the skipped BUY is charged all the same
BuySkipCharged(e, t, key, state, notional) ==
    MarkAndPush(
        RecordSkip([e EXCEPT !.cash = e.cash - notional],
                   [kind |-> "BUY_INSUFFICIENT", ts |-> t.timestamp, key |-> key,
                    need |-> toNumber(notional), avail |-> toNumber(e.cash)]),
        key, state, t.timestamp)

\* lines 183-195: BUY, notional > cash, partial fills disallowed
BuySkipInsufficient(e, t, key, state, notional) ==
    MarkAndPush(
        RecordSkip(e, [kind |-> "BUY_INSUFFICIENT", ts |-> t.timestamp, key |-> key,
                       need |-> toNumber(notional), avail |-> toNumber(e.cash)]),
        key, state, t.timestamp)

\* mutation: a BUY skipped for an empty account does not record the trade's price
BuySkipZeroAffordableUnpriced(e, t, key, state) ==
    MarkAndPush(
        RecordSkip(e, [kind |-> "BUY_ZERO_AFFORDABLE", ts |-> t.timestamp, key |-> key,
                       need |-> toNumber(0), avail |-> toNumber(e.cash)]),
        key, MapGet(e.positions, key, NewPosition), t.timestamp)

\* lines 197-209: BUY, nothing affordable
BuySkipZeroAffordable(e, t, key, state) ==
    MarkAndPush(
        RecordSkip(e, [kind |-> "BUY_ZERO_AFFORDABLE", ts |-> t.timestamp, key |-> key,
                       need |-> toNumber(0), avail |-> toNumber(e.cash)]),
        key, state, t.timestamp)

\* mutation: a reduced fill is not counted as a partial fill
BuyPartialUncounted(e, t, key, state, price, maxQtyAbs) ==
    LET nextQty == state.qty + maxQtyAbs
        filled  == [state EXCEPT !.qty = nextQty,
                                 !.avgPrice = NextAvg(state, price, maxQtyAbs, nextQty)]
    IN  MarkAndPush([e EXCEPT !.cash = 0], key, filled, t.timestamp)

\* mutation: the reduced fill is charged its own value, not all the cash
BuyPartialChargingValue(e, t, key, state, price, maxQtyAbs) ==
    LET notional == mulDiv(price, maxQtyAbs, SCALE)
        nextQty  == state.qty + maxQtyAbs
        filled   == [state EXCEPT !.qty = nextQty,
                                  !.avgPrice = NextAvg(state, price, maxQtyAbs, nextQty)]
    IN  MarkAndPush([e EXCEPT !.partialFillCount = e.partialFillCount + 1,
                              !.cash = e.cash - notional],
                    key, filled, t.timestamp)

\* lines 210-225: BUY filled for the affordable quantity
BuyPartial(e, t, key, state, price, maxQtyAbs) ==
    LET notional == e.cash
        nextQty  == state.qty + maxQtyAbs
        filled   == IF nextQty > 0
                    THEN [state EXCEPT !.qty = nextQty,
                                       !.avgPrice = NextAvg(state, price, maxQtyAbs, nextQty)]
                    ELSE state
    IN  MarkAndPush([e EXCEPT !.partialFillCount = e.partialFillCount + 1,
                              !.cash = e.cash - notional],
                    key, filled, t.timestamp)

\* mutation: a full fill costs one unit (0.0001) more than its notional
BuyFullWithFee(e, t, key, state, price, qtyAbs, notional) ==
    LET nextQty == state.qty + qtyAbs
        filled  == [state EXCEPT !.qty = nextQty,
                                 !.avgPrice = NextAvg(state, price, qtyAbs, nextQty)]
    IN  MarkAndPush([e EXCEPT !.cash = e.cash - notional - 1], key, filled, t.timestamp)

\* lines 228-239: BUY filled in full
BuyFull(e, t, key, state, price, qtyAbs, notional) ==
    LET nextQty == state.qty + qtyAbs
        filled  == [state EXCEPT !.qty = nextQty,
                                 !.avgPrice = NextAvg(state, price, qtyAbs, nextQty)]
    IN  MarkAndPush([e EXCEPT !.cash = e.cash - notional], key, filled, t.timestamp)

\* mutation: a BUY whose notional equals the cash is treated as beyond the cash
BuyStrict(e, t, key, state, price, rawQty) ==
    LET qtyAbs   == rawQty
        notional == mulDiv(price, qtyAbs, SCALE)
    IN  IF notional >= e.cash
        THEN IF ~allowPartialFills
             THEN BuySkipInsufficient(e, t, key, state, notional)
             ELSE LET maxQtyAbs == mulDiv(e.cash, SCALE, price)
                  IN  IF maxQtyAbs <= 0
                      THEN BuySkipZeroAffordable(e, t, key, state)
                      ELSE BuyPartial(e, t, key, state, price, maxQtyAbs)
        ELSE BuyFull(e, t, key, state, price, qtyAbs, notional)

\* lines 179-240
Buy(e, t, key, state, price, rawQty) ==
    LET qtyAbs   == rawQty
        notional == mulDiv(price, qtyAbs, SCALE)
    IN  IF notional > e.cash
        THEN IF ~allowPartialFills
             THEN BuySkipInsufficient(e, t, key, state, notional)
             ELSE LET maxQtyAbs == mulDiv(e.cash, SCALE, price)
                  IN  IF maxQtyAbs <= 0
                      THEN BuySkipZeroAffordable(e, t, key, state)
                      ELSE BuyPartial(e, t, key, state, price, maxQtyAbs)
        ELSE BuyFull(e, t, key, state, price, qtyAbs, notional)

\* mutation: a SELL without a position is counted but appends no equity point
SellSkipNoPositionUnmarked(e, t, key, state) ==
    RecordSkip(e, [kind |-> "SELL_NO_POSITION", ts |-> t.timestamp, key |-> key,
                   need |-> toNumber(0), avail |-> toNumber(0)])

\* lines 243-253: SELL with nothing held
SellSkipNoPosition(e, t, key, state) ==
    MarkAndPush(RecordSkip(e, [kind |-> "SELL_NO_POSITION", ts |-> t.timestamp, key |-> key,
                               need |-> toNumber(0), avail |-> toNumber(0)]),
                key, state, t.timestamp)

\* lines 257-267: SELL of a zero quantity
SellSkipZeroQty(e, t, key, state) ==
    MarkAndPush(RecordSkip(e, [kind |-> "SELL_ZERO_QTY", ts |-> t.timestamp, key |-> key,
                               need |-> toNumber(0), avail |-> toNumber(0)]),
                key, state, t.timestamp)

\* mutation: the sell quantity is not capped at the holding
SellQtyUncapped(qtyAbs, held) == qtyAbs

\* qtyAbs > state.qty ? state.qty : qtyAbs  (line 256)
SellQty(qtyAbs, held) == IF qtyAbs > held THEN held ELSE qtyAbs

\* mutation: the average entry price survives the sale of the whole holding
SellFillKeepAvg(e, t, key, state, price, qtyAbs, sellQty) ==
    LET notional == mulDiv(price, sellQty, SCALE)
        pnl      == mulDiv(price - state.avgPrice, sellQty, SCALE)
        event    == [ts |-> t.timestamp, key |-> key, side |-> "SELL",
                     qty |-> toNumber(sellQty), entryPrice |-> toNumber(state.avgPrice),
                     exitPrice |-> toNumber(price), pnlUsd |-> toNumber(pnl)]
    IN  MarkAndPush([e EXCEPT !.partialFillCount =
                                  IF sellQty # qtyAbs THEN e.partialFillCount + 1
                                  ELSE e.partialFillCount,
                              !.cash = e.cash + notional,
                              !.realized = Append(e.realized, event)],
                    key, [state EXCEPT !.qty = state.qty - sellQty], t.timestamp)

\* mutation: the P&L of a sale is the proceeds minus the floored cost of the sold quantity
SellFillPnlOnProceeds(e, t, key, state, price, qtyAbs, sellQty) ==
    LET notional == mulDiv(price, sellQty, SCALE)
        pnl      == notional - mulDiv(state.avgPrice, sellQty, SCALE)
        event    == [ts |-> t.timestamp, key |-> key, side |-> "SELL",
                     qty |-> toNumber(sellQty), entryPrice |-> toNumber(state.avgPrice),
                     exitPrice |-> toNumber(price), pnlUsd |-> toNumber(pnl)]
        left     == state.qty - sellQty
        sold     == [state EXCEPT !.qty = left,
                                  !.avgPrice = IF left = 0 THEN 0 ELSE state.avgPrice]
    IN  MarkAndPush([e EXCEPT !.partialFillCount =
                                  IF sellQty # qtyAbs THEN e.partialFillCount + 1
                                  ELSE e.partialFillCount,
                              !.cash = e.cash + notional,
                              !.realized = Append(e.realized, event)],
                    key, sold, t.timestamp)

\* lines 268-295: SELL executed
SellFill(e, t, key, state, price, qtyAbs, sellQty) ==
    LET notional == mulDiv(price, sellQty, SCALE)
        pnl      == mulDiv(price - state.avgPrice, sellQty, SCALE)
        event    == [ts |-> t.timestamp, key |-> key, side |-> "SELL",
                     qty |-> toNumber(sellQty), entryPrice |-> toNumber(state.avgPrice),
                     exitPrice |-> toNumber(price), pnlUsd |-> toNumber(pnl)]
        left     == state.qty - sellQty
        sold     == [state EXCEPT !.qty = left,
                                  !.avgPrice = IF left = 0 THEN 0 ELSE state.avgPrice]
    IN  MarkAndPush([e EXCEPT !.partialFillCount =
                                  IF sellQty # qtyAbs THEN e.partialFillCount + 1
                                  ELSE e.partialFillCount,
                              !.cash = e.cash + notional,
                              !.realized = Append(e.realized, event)],
                    key, sold, t.timestamp)

\* mutation: a SELL is executed without looking at the holding
SellUnchecked(e, t, key, state, price, rawQty) ==
    SellFill(e, t, key, state, price, rawQty, rawQty)

\* lines 242-296
Sell(e, t, key, state, price, rawQty) ==
    IF state.qty <= 0
    THEN SellSkipNoPosition(e, t, key, state)
    ELSE LET qtyAbs  == rawQty
             sellQty == SellQty(qtyAbs, state.qty)
         IN  IF sellQty <= 0
             THEN SellSkipZeroQty(e, t, key, state)
             ELSE SellFill(e, t, key, state, price, qtyAbs, sellQty)

\* mutation: only the price is looked at
IsDroppedOnPrice(rawQty, price) == price <= 0

\* rawQty <= 0n || price <= 0n  (line 170)
IsDropped(rawQty, price) == rawQty <= 0 \/ price <= 0

\* The body of the for loop (lines 167-296) for trade t
Step(e, t) ==
    LET key   == marketKey(t)
        price == toScaled(t.price)
    IN  IF desiredQtyAbsThrows(t, price)
        THEN [e EXCEPT !.thrown = TRUE]
        ELSE LET rawQty == desiredQtyAbs(t, price)
             IN  IF IsDropped(rawQty, price)
                 THEN e
                 ELSE LET state == [MapGet(e.positions, key, NewPosition)
                                       EXCEPT !.lastPrice = price]
                      IN  IF t.side = "BUY"
                          THEN Buy(e, t, key, state, price, rawQty)
                          ELSE IF t.side = "SELL"
                               THEN Sell(e, t, key, state, price, rawQty)
                               ELSE e

(***************************************************************************)
(* The result (lines 299-423).  Of the summary, the fields computed in     *)
(* floating point from the equity series (pnlPct, maxDrawdownPct,          *)
(* sharpeRatio) and the local-time buckets are not modelled.               *)
(***************************************************************************)
Last(s) == s[Len(s)]

\* row.realizedPnlUsd += r.pnlUsd over the events of one key (line 348); the
\* sum of numbers with four decimals is kept as an exact decimal
RECURSIVE SumPnlUsd(_)
SumPnlUsd(events) ==
    IF Len(events) = 0 THEN 0 ELSE events[1].pnlUsd.n + SumPnlUsd(Tail(events))

\* the keys of pnlByMarketMap in insertion order (lines 337-353)
MarketKeys(events) ==
    LET first == {j \in 1..Len(events) : \A i \in 1..(j - 1) : events[i].key # events[j].key}
    IN  [p \in 1..Cardinality(first) |->
            events[CHOOSE j \in first : Cardinality({i \in first : i <= j}) = p].key]

\* the row of one key after the loop of lines 338-353
MarketRow(events, key) ==
    LET mine == SelectSeq(events, LAMBDA r : r.key = key)
    IN  [key |-> key,
         realizedPnlUsd |-> Num(SumPnlUsd(mine), SCALE),
         realizedCount |-> Len(mine),
         winCount |-> Len(SelectSeq(mine, LAMBDA r : r.pnlUsd.n > 0))]

\* mutation: the rows stay in insertion order
RowsUnsorted(rows) == rows

\* .sort((a, b) => b.realizedPnlUsd - a.realizedPnlUsd), stable (line 354)
SortByPnlDesc(rows) ==
    LET place == [i \in 1..Len(rows) |->
                     Cardinality({j \in 1..Len(rows) :
                         \/ rows[i].realizedPnlUsd.n - rows[j].realizedPnlUsd.n < 0
                         \/ (rows[i].realizedPnlUsd.n - rows[j].realizedPnlUsd.n = 0
                                /\ j <= i)})]
    IN  [p \in 1..Len(rows) |-> rows[CHOOSE i \in 1..Len(rows) : place[i] = p]]

\* lines 337-354
PnlByMarket(events) ==
    LET keys == MarketKeys(events)
    IN  SortByPnlDesc([p \in 1..Len(keys) |-> MarketRow(events, keys[p])])

MakeResult(points) ==
    LET initialScaled == toScaled(initialCapitalUsd)
        finalScaled   == IF Len(points) > 0 THEN Last(points).equity ELSE initialScaled
        pnlScaled     == finalScaled - initialScaled
    IN  [meta |-> [initialCapitalUsd |-> initialCapitalUsd,
                   followMode |-> followMode,
                   followRatio |-> followRatio,
                   followNotionalUsd |-> IF followMode = "fixed"
                                         THEN Some(followNotionalUsd) ELSE Undefined,
                   startTs |-> startTs,
                   endTs |-> endTs,
                   inputTradeCount |-> Len(trades),
                   usedTradeCount |-> Len(normalizedTrades),
                   skippedTradeCount |-> skippedTradeCount,
                   partialFillCount |-> partialFillCount],
         summary |-> [finalEquityUsd |-> toNumber(finalScaled),
                      pnlUsd |-> toNumber(pnlScaled)],
         equity |-> [j \in 1..Len(points) |->
                        [ts |-> points[j].ts, equityUsd |-> toNumber(points[j].equity),
                         cashUsd |-> toNumber(points[j].cash)]],
         realized |-> realized,
         pnlByMarket |-> PnlByMarket(realized),
         skippedTradeReasons |-> skippedTradeReasons]

(***************************************************************************)
(* Actions                                                                 *)
(***************************************************************************)
\* lines 124-158: the call, up to the for loop
Invoke ==
    /\ pc = "ready"
    /\ pc' = "loop"
    /\ normalizedTrades' = NormalizeTrades(trades)
    /\ idx' = 1
    /\ cash' = toScaled(initialCapitalUsd)
    /\ positions' = EmptyMap
    /\ markedValueByKey' = EmptyMap
    /\ markedSum' = 0
    /\ realized' = <<>>
    /\ equity' = <<>>
    /\ skippedTradeCount' = 0
    /\ partialFillCount' = 0
    /\ skippedTradeReasons' = <<>>
    /\ UNCHANGED <<trades, options, result, history, localStorage>>

\* lines 166-297: one iteration of the for loop
ProcessTrade ==
    /\ pc = "loop"
    /\ idx <= Len(normalizedTrades)
    /\ LET e == Step(Engine, normalizedTrades[idx])
       IN  /\ pc' = IF e.thrown THEN "thrown" ELSE "loop"
           /\ cash' = e.cash
           /\ positions' = e.positions
           /\ markedValueByKey' = e.markedValueByKey
           /\ markedSum' = e.markedSum
           /\ realized' = e.realized
           /\ equity' = e.equity
           /\ skippedTradeCount' = e.skippedTradeCount
           /\ partialFillCount' = e.partialFillCount
           /\ skippedTradeReasons' = e.skippedTradeReasons
    /\ idx' = idx + 1
    /\ UNCHANGED <<trades, options, normalizedTrades, result, history, localStorage>>

\* mutation: the synthesized point is stamped with the end of the window first
SyntheticTsEndFirst(nowSec) == OrElse(endTs, OrElse(startTs, nowSec))

\* line 299: startTs ?? endTs ?? Math.floor(Date.now() / 1000)
SyntheticTs(nowSec) == OrElse(startTs, OrElse(endTs, nowSec))

\* lines 299-423: after the loop; nowSec is Math.floor(Date.now() / 1000)
Finish(nowSec) ==
    /\ pc = "loop"
    /\ idx > Len(normalizedTrades)
    /\ LET points == IF Len(equity) = 0
                     THEN pushEquity(equity, SyntheticTs(nowSec), cash, markedSum)
                     ELSE equity
       IN  /\ equity' = points
           /\ result' = Some(MakeResult(points))
    /\ pc' = "done"
    /\ UNCHANGED <<trades, options, normalizedTrades, idx, cash, positions,
                   markedValueByKey, markedSum, realized, skippedTradeCount,
                   partialFillCount, skippedTradeReasons, history, localStorage>>

\* The caller invokes the engine again with the same arguments
Reinvoke ==
    /\ pc = "done"
    /\ Len(history) < MaxReruns
    /\ history' = Append(history, result[1])
    /\ result' = Undefined
    /\ pc' = "ready"
    /\ UNCHANGED <<trades, options, normalizedTrades, idx, cash, positions,
                   markedValueByKey, markedSum, realized, equity, skippedTradeCount,
                   partialFillCount, skippedTradeReasons, localStorage>>

(***************************************************************************)
(* Inputs                                                                  *)
(***************************************************************************)
Dec(n, d) == Num(n, d)

Trade(side, asset, price, size, ts) ==
    [side |-> side, conditionId |-> "condition", asset |-> asset,
     size |-> size, price |-> price, timestamp |-> ts]

Options(capital, ratio, notional, start, end, partial) ==
    [initialCapitalUsd |-> capital, followRatio |-> ratio, followNotionalUsd |-> notional,
     startTs |-> start, endTs |-> end, allowPartialFills |-> partial]

ListsUpTo(S, n) == UNION {[1..k -> S] : k \in 0..n}

\* a feed in chronological order: the i-th trade carries timestamp i
Stamped(list) == [j \in 1..Len(list) |-> [list[j] EXCEPT !.timestamp = j]]

\* seconds read from the clock by Finish
ClockValues == {7, 8}

InitWith(tradeLists, configs) ==
    /\ trades \in tradeLists
    /\ options \in configs
    /\ pc = "ready"
    /\ normalizedTrades = <<>>
    /\ idx = 1
    /\ cash = 0
    /\ positions = EmptyMap
    /\ markedValueByKey = EmptyMap
    /\ markedSum = 0
    /\ realized = <<>>
    /\ equity = <<>>
    /\ skippedTradeCount = 0
    /\ partialFillCount = 0
    /\ skippedTradeReasons = <<>>
    /\ result = Undefined
    /\ history = <<>>
    /\ localStorage = EmptyMap

Next == Invoke \/ ProcessTrade \/ (\E nowSec \in ClockValues : Finish(nowSec))

(***************************************************************************)
(* Spec: the execution engine on chronological feeds over two markets, in  *)
(* both sizing modes, with and without partial fills, with scarce capital  *)
(* (10) and capital for two full fills (100).                              *)
(***************************************************************************)
EngineTrades ==
    {Trade(side, asset, price, Int2Num(100), 0) :
        side \in {"BUY", "SELL"}, asset \in {"a1", "a2"}, price \in {Dec(4, 10), Dec(5, 10)}}

EngineOptions ==
    {Options(Some(Int2Num(capital)), mode[1], mode[2], Undefined, Undefined, Some(partial)) :
        capital \in {10, 100},
        mode \in {<<Some(Int2Num(1)), Undefined>>, <<Undefined, Some(Int2Num(100))>>},
        partial \in BOOLEAN}

Init == InitWith({Stamped(l) : l \in ListsUpTo(EngineTrades, MaxTrades)}, EngineOptions)

Spec == Init /\ [][Next]_vars

(***************************************************************************)
(* SpecAnomalous: feeds with unusable prices (zero, negative, NaN,         *)
(* Infinity) next to a usable one, in both sizing modes.                   *)
(***************************************************************************)
AnomalousTrades ==
    {Trade(side, "a1", price, Int2Num(100), 0) :
        side \in {"BUY", "SELL"},
        price \in {Dec(4, 10), Int2Num(0), Dec(-4, 10), NaN, Infinity}}

AnomalousOptions ==
    {Options(Some(Int2Num(100)), mode[1], mode[2], Undefined, Undefined, Undefined) :
        mode \in {<<Some(Int2Num(1)), Undefined>>, <<Undefined, Some(Int2Num(100))>>}}

InitAnomalous ==
    InitWith({Stamped(l) : l \in ListsUpTo(AnomalousTrades, MaxTrades)}, AnomalousOptions)

SpecAnomalous == InitAnomalous /\ [][Next]_vars

(***************************************************************************)
(* SpecFixed: fixed-notional sizing with a budget of 100 per trade.        *)
(***************************************************************************)
FixedTrades ==
    {Trade(side, "a1", price, size, 0) :
        side \in {"BUY", "SELL"}, price \in {Dec(5, 10), Dec(6, 10)},
        size \in {Int2Num(9999), Int2Num(100)}}

FixedOptions ==
    {Options(Some(Int2Num(capital)), Undefined, Some(Int2Num(100)), Undefined, Undefined,
             Some(partial)) :
        capital \in {1000, 10}, partial \in BOOLEAN}

InitFixed == InitWith({Stamped(l) : l \in ListsUpTo(FixedTrades, MaxTrades)}, FixedOptions)

SpecFixed == InitFixed /\ [][Next]_vars

(***************************************************************************)
(* SpecFills: one market, whole and fractional sizes, prices whose product *)
(* with a size is and is not exact in four decimals.                       *)
(***************************************************************************)
FillTrades ==
    {Trade(side, "a1", price, size, 0) :
        side \in {"BUY", "SELL"},
        price \in {Dec(4, 10), Dec(6, 10), Dec(3333, 10000)},
        size \in {Int2Num(100), Dec(15, 10)}}

FillOptions ==
    {Options(Some(Int2Num(10000)), Some(Int2Num(1)), Undefined, Undefined, Undefined, Some(TRUE)),
     Options(Some(Int2Num(10)), Some(Int2Num(1)), Undefined, Undefined, Undefined, Some(TRUE)),
     Options(Some(Int2Num(10000)), Undefined, Some(Int2Num(100)), Undefined, Undefined, Some(TRUE))}

InitFills == InitWith({Stamped(l) : l \in ListsUpTo(FillTrades, MaxTrades)}, FillOptions)

SpecFills == InitFills /\ [][Next]_vars

(***************************************************************************)
(* SpecWindow: feeds in any order, with repeated timestamps, under every   *)
(* kind of window (none, one bound, both, empty).                          *)
(***************************************************************************)
WindowTrades ==
    {Trade(side, "a1", Dec(5, 10), Int2Num(100), ts) :
        side \in {"BUY", "SELL"}, ts \in {1, 2, 3}}

WindowOptions ==
    {Options(Some(Int2Num(10000)), Some(Int2Num(1)), Undefined, start, end, Undefined) :
        start \in {Undefined, Some(2)}, end \in {Undefined, Some(2), Some(1)}}

InitWindow == InitWith(ListsUpTo(WindowTrades, MaxTrades), WindowOptions)

SpecWindow == InitWindow /\ [][Next]_vars

(***************************************************************************)
(* SpecTwice: the caller repeats the invocation with the same arguments.   *)
(***************************************************************************)
NextTwice == Next \/ Reinvoke

SpecTwice == InitWindow /\ [][NextTwice]_vars

(***************************************************************************)
(* Vocabulary of the properties                                            *)
(***************************************************************************)
Usd(k) == Int2Num(k)

\* approxEqual(a, b, eps = 1e-9) of the repository's tests: |a - b| <= 1e-9
approxEqual(a, b) ==
    LET diff == Abs(a.n * b.d - b.n * a.d)
    IN  IsFinite(a) /\ IsFinite(b) /\ diff <= (a.d * b.d) \div 1000000000

Returned == pc = "done"

Res == result[1]

\* the trade the for loop is about to process, and what the loop derives from it
AtTrade == pc = "loop" /\ idx <= Len(normalizedTrades)

CurTrade == normalizedTrades[idx]

CurKey == marketKey(CurTrade)

CurPrice == toScaled(CurTrade.price)

CurRawQty == desiredQtyAbs(CurTrade, CurPrice)

CurHeld == MapGet(positions, CurKey, NewPosition)

CurNotional == mulDiv(CurPrice, CurRawQty, SCALE)

\* the trade reaches the execution engine: no exception, no silent drop
CurExecuted ==
    /\ AtTrade
    /\ ~desiredQtyAbsThrows(CurTrade, CurPrice)
    /\ ~IsDropped(CurRawQty, CurPrice)

\* this step is an iteration of the for loop
Iterated == idx' = idx + 1

HeldQty(k) == MapGet(positions, k, NewPosition).qty

PositionsKept ==
    \A k \in DOMAIN positions' :
        /\ positions'[k].qty = MapGet(positions, k, NewPosition).qty
        /\ positions'[k].avgPrice = MapGet(positions, k, NewPosition).avgPrice

NoOpenPosition == \A k \in DOMAIN positions : positions[k].qty = 0

(***************************************************************************)
(* C1: with a non-negative initial capital, after every processed trade    *)
(* the cash is >= 0 and every held quantity is >= 0, and so is the cash    *)
(* of every equity point.                                                  *)
(***************************************************************************)
C1_CashAndQtyNonNegative ==
    toScaled(initialCapitalUsd) >= 0 =>
        /\ cash >= 0
        /\ \A k \in DOMAIN positions : positions[k].qty >= 0
        /\ \A j \in 1..Len(equity) : equity[j].cash >= 0

\* a replay with a partial buy that used up the cash, a skipped buy and a capped sell
C1_Witness ==
    /\ Returned
    /\ partialFillCount >= 2
    /\ skippedTradeCount >= 1
    /\ Len(realized) >= 1
    /\ \E j \in 1..Len(equity) : equity[j].cash = 0

(***************************************************************************)
(* C2: simulateCopyTrades never throws: a trade whose scaled price is <= 0 *)
(* is dropped or skipped and the replay goes on to return a result.        *)
(***************************************************************************)
C2_NeverThrows == pc # "thrown"

(***************************************************************************)
(* C3: determinism: an invocation repeated with the same (trades, options) *)
(* returns the result of the earlier invocation, in every field.           *)
(***************************************************************************)
C3_Determinism ==
    (Returned /\ Len(history) > 0) => Res = history[1]

(***************************************************************************)
(* C4: Scenario E: initialCapital 1000, budget 100 per trade, BUY 9999 at  *)
(* 0.5 (ts 1) then SELL 9999 at 0.6 (ts 2) returns P&L 20 and final equity *)
(* 1020 within 1e-9, with followMode 'fixed'.                              *)
(***************************************************************************)
ScenarioE ==
    /\ trades = <<Trade("BUY", "a1", Dec(5, 10), Int2Num(9999), 1),
                  Trade("SELL", "a1", Dec(6, 10), Int2Num(9999), 2)>>
    /\ options = Options(Some(Int2Num(1000)), Undefined, Some(Int2Num(100)),
                         Undefined, Undefined, Some(TRUE))

C4_ScenarioE ==
    (Returned /\ ScenarioE) =>
        /\ approxEqual(Res.summary.pnlUsd, Usd(20))
        /\ approxEqual(Res.summary.finalEquityUsd, Usd(1020))
        /\ Res.meta.followMode = "fixed"

(***************************************************************************)
(* C5: ratio mode, a list of two trades on one key: a BUY of Q at P1 that  *)
(* the cash covers, then a SELL of Q at P2.                                *)
(***************************************************************************)
\* the two scaled prices and the followed quantity of such a pair
PairPrice1 == toScaled(trades[1].price)

PairPrice2 == toScaled(trades[2].price)

PairQty == toScaled(NumMul(trades[1].size, followRatio))

BuyThenSell ==
    /\ Len(trades) = 2
    /\ trades[1].side = "BUY"
    /\ trades[2].side = "SELL"
    /\ marketKey(trades[1]) = marketKey(trades[2])
    /\ trades[1].size = trades[2].size
    /\ trades[1].timestamp <= trades[2].timestamp
    /\ isWithinRange(trades[1].timestamp, startTs, endTs)
    /\ isWithinRange(trades[2].timestamp, startTs, endTs)

RatioPairCovered ==
    /\ BuyThenSell
    /\ followMode = "ratio"
    /\ PairPrice1 > 0 /\ PairPrice2 > 0 /\ PairQty > 0
    /\ MulDivQR(PairPrice1, PairQty, SCALE)[1] <= toScaled(initialCapitalUsd)

\* price * qty / SCALE of the real numbers is a whole number of 1/10000
ExactIn4(price, qty) == MulDivQR(Abs(price), qty, SCALE)[2] = 0

\* C5 as stated: exactly one realized event with P&L = (P2 - P1) * Q, final
\* equity = initial capital + that P&L, no skip, no partial fill
C5_Original ==
    (Returned /\ RatioPairCovered) =>
        /\ Len(realized) = 1
        /\ ExactIn4(PairPrice2 - PairPrice1, PairQty)
        /\ realized[1].pnlUsd = toNumber(Sign(PairPrice2 - PairPrice1)
               * MulDivQR(Abs(PairPrice2 - PairPrice1), PairQty, SCALE)[1])
        /\ Res.summary.finalEquityUsd.n = toScaled(initialCapitalUsd) + realized[1].pnlUsd.n
        /\ skippedTradeCount = 0
        /\ partialFillCount = 0

\* C5 amended: exactly one realized event, whose P&L is (P2 - P1) * Q cut to
\* four decimals toward zero; final equity = initial capital - floor4(P1 * Q)
\* + floor4(P2 * Q); no skip, no partial fill.  Where P1 * Q and P2 * Q are
\* exact in four decimals the P&L is (P2 - P1) * Q and the final equity is the
\* initial capital plus it.
C5_FullFillRealization ==
    (Returned /\ RatioPairCovered) =>
        LET diff == PairPrice2 - PairPrice1
            cut  == Sign(diff) * MulDivQR(Abs(diff), PairQty, SCALE)[1]
            cost == MulDivQR(PairPrice1, PairQty, SCALE)[1]
            gain == MulDivQR(PairPrice2, PairQty, SCALE)[1]
        IN  /\ Len(realized) = 1
            /\ realized[1].pnlUsd = toNumber(cut)
            /\ realized[1].qty = toNumber(PairQty)
            /\ Res.summary.finalEquityUsd = toNumber(toScaled(initialCapitalUsd) - cost + gain)
            /\ Res.meta.skippedTradeCount = 0
            /\ Res.meta.partialFillCount = 0
            /\ (ExactIn4(PairPrice1, PairQty) /\ ExactIn4(PairPrice2, PairQty)) =>
                   /\ ExactIn4(diff, PairQty)
                   /\ Res.summary.finalEquityUsd.n = toScaled(initialCapitalUsd) + cut
                   /\ Res.summary.pnlUsd = realized[1].pnlUsd

\* Scenario A with its numbers: P&L 20, final equity 10020
C5_Witness ==
    /\ Returned
    /\ trades = <<Trade("BUY", "a1", Dec(4, 10), Int2Num(100), 1),
                  Trade("SELL", "a1", Dec(6, 10), Int2Num(100), 2)>>
    /\ options = Options(Some(Int2Num(10000)), Some(Int2Num(1)), Undefined,
                         Undefined, Undefined, Some(TRUE))
    /\ approxEqual(Res.summary.pnlUsd, Usd(20))
    /\ approxEqual(Res.summary.finalEquityUsd, Usd(10020))
    /\ Len(Res.realized) = 1
    /\ Res.meta.skippedTradeCount = 0

(***************************************************************************)
(* C6: round trip: a BUY fully filled on a flat key followed by a SELL of  *)
(* the same quantity at the same price returns a realized P&L of 0, the    *)
(* initial capital as final equity, and leaves quantity 0 and average 0.   *)
(***************************************************************************)
RoundTrip ==
    /\ BuyThenSell
    /\ trades[1].price = trades[2].price
    /\ PairPrice1 > 0
    /\ desiredQtyAbs(trades[1], PairPrice1) > 0
    /\ mulDiv(PairPrice1, desiredQtyAbs(trades[1], PairPrice1), SCALE)
           <= toScaled(initialCapitalUsd)

C6_RoundTrip ==
    (Returned /\ RoundTrip) =>
        /\ Len(Res.realized) = 1
        /\ Res.realized[1].pnlUsd = toNumber(0)
        /\ Res.realized[1].qty = toNumber(desiredQtyAbs(trades[1], PairPrice1))
        /\ Res.summary.pnlUsd = toNumber(0)
        /\ Res.summary.finalEquityUsd = toNumber(toScaled(initialCapitalUsd))
        /\ cash = toScaled(initialCapitalUsd)
        /\ positions[marketKey(trades[1])].qty = 0
        /\ positions[marketKey(trades[1])].avgPrice = 0

\* a round trip of a fractional quantity (budget 100 at price 0.3333)
C6_Witness ==
    /\ Returned
    /\ RoundTrip
    /\ followMode = "fixed"
    /\ trades[1].price = Dec(3333, 10000)
    /\ Res.realized[1].qty = toNumber(3000300)

(***************************************************************************)
(* C7: with partial fills allowed, a BUY whose notional exceeds the cash   *)
(* is filled for the affordable quantity cash / price and counted as a     *)
(* partial fill, not a skip; a SELL that asks for more than is held sells  *)
(* the whole holding, is counted as a partial fill and emits one realized  *)
(* event.                                                                  *)
(***************************************************************************)
CurMaxQty == mulDiv(cash, SCALE, CurPrice)

BuyBeyondCash ==
    /\ CurExecuted
    /\ CurTrade.side = "BUY"
    /\ allowPartialFills
    /\ CurNotional > cash

PartialBuyEffect ==
    /\ positions'[CurKey].qty = CurHeld.qty + CurMaxQty
    /\ partialFillCount' = partialFillCount + 1
    /\ skippedTradeCount' = skippedTradeCount
    /\ skippedTradeReasons' = skippedTradeReasons
    /\ realized' = realized

SellBeyondHolding ==
    /\ CurExecuted
    /\ CurTrade.side = "SELL"
    /\ CurHeld.qty > 0
    /\ CurRawQty > CurHeld.qty

CappedSellEffect ==
    /\ positions'[CurKey].qty = 0
    /\ partialFillCount' = partialFillCount + 1
    /\ skippedTradeCount' = skippedTradeCount
    /\ skippedTradeReasons' = skippedTradeReasons
    /\ Len(realized') = Len(realized) + 1
    /\ Last(realized').qty = toNumber(CurHeld.qty)

\* C7 as stated: every BUY beyond the cash is a partial fill
C7_Original ==
    [][(Iterated /\ BuyBeyondCash => PartialBuyEffect)
       /\ (Iterated /\ SellBeyondHolding => CappedSellEffect)]_vars

\* C7 amended: provided the affordable quantity cash / price is > 0 in fixed
\* point (otherwise the BUY is a recorded skip)
C7_PartialBuyCappedSell ==
    [][(Iterated /\ BuyBeyondCash /\ CurMaxQty > 0 => PartialBuyEffect /\ cash' = 0)
       /\ (Iterated /\ SellBeyondHolding => CappedSellEffect)]_vars

\* Scenario B with its numbers: 25 units bought and sold, P&L 2.5, equity 12.5
C7_Witness ==
    /\ Returned
    /\ trades = <<Trade("BUY", "a1", Dec(4, 10), Int2Num(100), 1),
                  Trade("SELL", "a1", Dec(5, 10), Int2Num(100), 2)>>
    /\ options = Options(Some(Int2Num(10)), Some(Int2Num(1)), Undefined,
                         Undefined, Undefined, Some(TRUE))
    /\ Res.meta.partialFillCount = 2
    /\ Res.meta.skippedTradeCount = 0
    /\ Len(Res.realized) = 1
    /\ Res.realized[1].qty = Dec(250000, SCALE)
    /\ approxEqual(Res.realized[1].pnlUsd, Dec(25, 10))
    /\ approxEqual(Res.summary.pnlUsd, Dec(25, 10))
    /\ approxEqual(Res.summary.finalEquityUsd, Dec(125, 10))

(***************************************************************************)
(* C8: with partial fills disallowed, a BUY whose notional exceeds the     *)
(* cash is skipped: one more skip, its reason appended, no partial fill,   *)
(* cash, quantities and averages unchanged; with no open position the      *)
(* equity is the cash, and the initial capital when it is the first trade. *)
(***************************************************************************)
ReasonAppended(kind) ==
    IF Len(skippedTradeReasons) < SkipReasonCap
    THEN /\ Len(skippedTradeReasons') = Len(skippedTradeReasons) + 1
         /\ SubSeq(skippedTradeReasons', 1, Len(skippedTradeReasons)) = skippedTradeReasons
         /\ Last(skippedTradeReasons').kind = kind
         /\ Last(skippedTradeReasons').key = CurKey
    ELSE skippedTradeReasons' = skippedTradeReasons

BuyUnaffordable ==
    /\ CurExecuted
    /\ CurTrade.side = "BUY"
    /\ ~allowPartialFills
    /\ CurNotional > cash

SellNothingHeld ==
    /\ CurExecuted
    /\ CurTrade.side = "SELL"
    /\ CurHeld.qty = 0

C9_SellWithoutPosition ==
    [][(Iterated /\ SellNothingHeld) =>
          /\ pc' = "loop"
          /\ skippedTradeCount' = skippedTradeCount + 1
          /\ ReasonAppended("SELL_NO_POSITION")
          /\ partialFillCount' = partialFillCount
          /\ realized' = realized
          /\ cash' = cash
          /\ PositionsKept
          /\ \A k \in DOMAIN positions' : positions'[k].qty >= 0
          /\ Last(equity').equity = cash + markedSum
          /\ Last(equity').cash = cash]_vars

\* a SELL with nothing held as the only trade: equity stays at the capital of 100
C9_Witness ==
    /\ Returned
    /\ Len(trades) = 1
    /\ trades[1].side = "SELL"
    /\ initialCapitalUsd = Int2Num(100)
    /\ approxEqual(Res.summary.pnlUsd, Usd(0))
    /\ approxEqual(Res.summary.finalEquityUsd, Usd(100))
    /\ Res.meta.skippedTradeCount = 1
    /\ \E j \in 1..Len(Res.skippedTradeReasons) :
           Res.skippedTradeReasons[j].kind = "SELL_NO_POSITION"

(***************************************************************************)
(* C10: the engine processes exactly the trades whose timestamp lies in    *)
(* the window, both bounds inclusive, in non-decreasing timestamp order;   *)
(* usedTradeCount is their number; equity points and realized events are   *)
(* in non-decreasing timestamp order.                                      *)
(***************************************************************************)
InWindow(t) ==
    /\ (options.startTs = Undefined \/ t.timestamp >= options.startTs[1])
    /\ (options.endTs = Undefined \/ t.timestamp <= options.endTs[1])

Occurrences(s, x) == Cardinality({j \in 1..Len(s) : s[j] = x})

NonDecreasing(s, Ts(_)) == \A j \in 1..(Len(s) - 1) : Ts(s[j]) <= Ts(s[j + 1])

TsOfTrade(t) == t.timestamp

TsOfPoint(p) == p.ts

C10_SelectionAndOrder ==
    (pc \in {"loop", "done"}) =>
        /\ \A j \in 1..Len(normalizedTrades) : InWindow(normalizedTrades[j])
        /\ \A j \in 1..Len(trades) :
               Occurrences(normalizedTrades, trades[j]) =
                   (IF InWindow(trades[j]) THEN Occurrences(trades, trades[j]) ELSE 0)
        /\ Len(normalizedTrades) = Cardinality({j \in 1..Len(trades) : InWindow(trades[j])})
        /\ NonDecreasing(normalizedTrades, TsOfTrade)
        /\ NonDecreasing(equity, TsOfPoint)
        /\ NonDecreasing(realized, TsOfPoint)
        /\ Returned =>
               /\ Res.meta.usedTradeCount =
                      Cardinality({j \in 1..Len(trades) : InWindow(trades[j])})
               /\ NonDecreasing(Res.equity, TsOfPoint)
               /\ NonDecreasing(Res.realized, TsOfPoint)

\* an unordered feed, a trade on each bound of the window [2, 2] and one outside
C10_Witness ==
    /\ Returned
    /\ options.startTs = Some(2)
    /\ options.endTs = Some(2)
    /\ Len(trades) = 3
    /\ trades[1].timestamp = 3
    /\ trades[2].timestamp = 2
    /\ trades[3].timestamp = 2
    /\ Res.meta.usedTradeCount = 2
    /\ Len(Res.equity) = 2

(***************************************************************************)
(* SpecWithout: after a replay the caller replays the same feed without    *)
(* the trades that lie outside the window.                                 *)
(***************************************************************************)
CallerDropsOutside ==
    /\ pc = "done"
    /\ Len(history) < MaxReruns
    /\ \E j \in 1..Len(trades) : ~InWindow(trades[j])
    /\ trades' = SelectSeq(trades, InWindow)
    /\ history' = Append(history, result[1])
    /\ result' = Undefined
    /\ pc' = "ready"
    /\ UNCHANGED <<options, normalizedTrades, idx, cash, positions,
                   markedValueByKey, markedSum, realized, equity, skippedTradeCount,
                   partialFillCount, skippedTradeReasons, localStorage>>

NextWithout == Next \/ CallerDropsOutside

SpecWithout == InitWindow /\ [][NextWithout]_vars

\* a BUY of the feed on the key of trade t, inside the window
BoughtInWindow(t) ==
    \E i \in 1..Len(trades) :
        /\ trades[i].side = "BUY"
        /\ InWindow(trades[i])
        /\ marketKey(trades[i]) = marketKey(t)

(***************************************************************************)
(* C11: the trades outside the window have no influence: the replay of the *)
(* feed without them returns the same result but for meta.inputTradeCount, *)
(* and an in-window SELL on a key without any in-window BUY is skipped as  *)
(* having no position and realizes nothing.                                *)
(***************************************************************************)
C11_OutsideWindowNoInfluence ==
    Returned =>
        /\ Len(history) > 0 =>
               [Res EXCEPT !.meta.inputTradeCount = history[1].meta.inputTradeCount]
                   = history[1]
        /\ \A j \in 1..Len(trades) :
               (trades[j].side = "SELL" /\ InWindow(trades[j]) /\ ~BoughtInWindow(trades[j])) =>
                   /\ \E r \in 1..Len(Res.skippedTradeReasons) :
                          /\ Res.skippedTradeReasons[r].kind = "SELL_NO_POSITION"
                          /\ Res.skippedTradeReasons[r].ts = trades[j].timestamp
                          /\ Res.skippedTradeReasons[r].key = marketKey(trades[j])
                   /\ \A r \in 1..Len(Res.realized) :
                          Res.realized[r].key # marketKey(trades[j])

\* three trades of which two lay before startTs = 2; the third, a SELL inside the
\* window, was skipped in both replays
C11_Witness ==
    /\ Returned
    /\ Len(history) > 0
    /\ options.startTs = Some(2)
    /\ options.endTs = Undefined
    /\ history[1].meta.inputTradeCount = 3
    /\ Res.meta.inputTradeCount = 1
    /\ Res.meta.usedTradeCount = 1
    /\ history[1].meta.skippedTradeCount = 1
    /\ Res.skippedTradeReasons[1].kind = "SELL_NO_POSITION"

(***************************************************************************)
(* SpecPermuted: after a replay the caller replays the same collection of  *)
(* trades supplied in another order.                                       *)
(***************************************************************************)
Reorderings(s) ==
    {[j \in 1..Len(s) |-> s[p[j]]] :
        p \in {q \in [1..Len(s) -> 1..Len(s)] :
                  \A a, b \in 1..Len(s) : q[a] = q[b] => a = b}}

CallerPermutes ==
    /\ pc = "done"
    /\ Len(history) < MaxReruns
    /\ \E other \in Reorderings(trades) \ {trades} : trades' = other
    /\ history' = Append(history, result[1])
    /\ result' = Undefined
    /\ pc' = "ready"
    /\ UNCHANGED <<options, normalizedTrades, idx, cash, positions,
                   markedValueByKey, markedSum, realized, equity, skippedTradeCount,
                   partialFillCount, skippedTradeReasons, localStorage>>

NextPermuted == Next \/ CallerPermutes

SpecPermuted == InitWindow /\ [][NextPermuted]_vars

(***************************************************************************)
(* C12: the result does not depend on the order in which the caller        *)
(* supplies the trades: the replay of a permutation of the collection,     *)
(* trades with equal timestamps included, returns the same result.         *)
(***************************************************************************)
C12_OrderIndependence ==
    (Returned /\ Len(history) > 0) => Res = history[1]

\* trade t reaches the execution engine: sizing does not throw and t is not dropped
Reaches(t) ==
    LET price == toScaled(t.price)
    IN  /\ ~desiredQtyAbsThrows(t, price)
        /\ ~IsDropped(desiredQtyAbs(t, price), price)

\* the selected trades the for loop has gone through
Processed == SubSeq(normalizedTrades, 1, idx - 1)

Considered == SelectSeq(Processed, Reaches)

(***************************************************************************)
(* C13 as stated: whenever usedTradeCount > 0 the equity series has        *)
(* exactly usedTradeCount points, the i-th point carrying the timestamp of *)
(* the i-th selected trade.                                                *)
(***************************************************************************)
C13_Original ==
    (Returned /\ Res.meta.usedTradeCount > 0) =>
        /\ Len(Res.equity) = Res.meta.usedTradeCount
        /\ \A j \in 1..Len(Res.equity) : Res.equity[j].ts = normalizedTrades[j].timestamp

(***************************************************************************)
(* C13 amended: exactly one equity point is appended for every selected    *)
(* trade that reaches the execution engine (filled, partially filled or    *)
(* skipped) and none for a silently dropped one: the i-th point carries    *)
(* the timestamp of the i-th such trade, and a result whose trades were    *)
(* all dropped has the one synthesized point.                              *)
(***************************************************************************)
C13_OnePointPerConsideredTrade ==
    /\ pc = "loop" =>
           /\ Len(equity) = Len(Considered)
           /\ \A j \in 1..Len(equity) : equity[j].ts = Considered[j].timestamp
    /\ Returned =>
           IF Len(Considered) > 0
           THEN /\ Len(Res.equity) = Len(Considered)
                /\ \A j \in 1..Len(Res.equity) : Res.equity[j].ts = Considered[j].timestamp
           ELSE Len(Res.equity) = 1

\* three selected trades: one dropped for its price, one skipped, one filled
C13_Witness ==
    /\ Returned
    /\ Res.meta.usedTradeCount = 3
    /\ Len(Considered) = 2
    /\ Len(Res.equity) = 2
    /\ Res.meta.skippedTradeCount = 1
    /\ \E k \in DOMAIN positions : positions[k].qty > 0

RECURSIVE SumOver(_, _)
SumOver(keys, f) ==
    IF keys = {} THEN 0
    ELSE LET k == CHOOSE x \in keys : TRUE
         IN  f[k] + SumOver(keys \ {k}, f)

\* held quantity x last observed price of every key, each product floored to 4 decimals
RecomputedMarks ==
    SumOver(DOMAIN positions,
            [k \in DOMAIN positions |->
                mulDiv(positions[k].lastPrice, positions[k].qty, SCALE)])

(***************************************************************************)
(* C14: at every equity point the equity is cash + the sum over all keys   *)
(* of floor4(held quantity x last observed price) and the point's cash is  *)
(* the cash of that moment; the running mark sum equals the sum of the     *)
(* per-key marks and the sum recomputed from the position map.             *)
(***************************************************************************)
C14_EquityIsCashPlusMarks ==
    /\ markedSum = RecomputedMarks
    /\ markedSum = SumOver(DOMAIN markedValueByKey, markedValueByKey)
    /\ (pc \in {"loop", "done"} /\ Len(equity) > 0) =>
           /\ Last(equity).equity = cash + RecomputedMarks
           /\ Last(equity).cash = cash
    /\ Returned =>
           /\ Last(Res.equity).equityUsd = toNumber(cash + RecomputedMarks)
           /\ Last(Res.equity).cashUsd = toNumber(cash)
           /\ Res.summary.finalEquityUsd = toNumber(cash + RecomputedMarks)

\* two keys are held, one of them re-marked at a price other than its entry price
C14_Witness ==
    /\ Returned
    /\ Len(equity) = 3
    /\ \A k \in {marketKey(t) : t \in EngineTrades} : HeldQty(k) > 0
    /\ \E k \in DOMAIN positions : positions[k].lastPrice # positions[k].avgPrice
    /\ markedSum > 0

\* equality of two finite numbers
NumEq(a, b) == IsFinite(a) /\ IsFinite(b) /\ a.n * b.d = b.n * a.d

(***************************************************************************)
(* C15: when no trade is selected (empty feed, or no trade inside the      *)
(* window) the result has exactly one equity point, with equity and cash   *)
(* equal to the initial capital and timestamp startTs, else endTs, else    *)
(* the current time; final equity is the initial capital, P&L is 0, there  *)
(* are no realized events and no skips.  The equity series of a result is  *)
(* never empty.                                                            *)
(***************************************************************************)
C15_EmptySelection ==
    Returned =>
        /\ Len(Res.equity) >= 1
        /\ Res.meta.usedTradeCount = 0 =>
               /\ Len(Res.equity) = 1
               /\ NumEq(Res.equity[1].equityUsd, Res.meta.initialCapitalUsd)
               /\ NumEq(Res.equity[1].cashUsd, Res.meta.initialCapitalUsd)
               /\ Res.equity[1].ts \in
                      (IF options.startTs # Undefined THEN {options.startTs[1]}
                       ELSE IF options.endTs # Undefined THEN {options.endTs[1]}
                       ELSE ClockValues)
               /\ NumEq(Res.summary.finalEquityUsd, Res.meta.initialCapitalUsd)
               /\ NumEq(Res.summary.pnlUsd, Usd(0))
               /\ Res.realized = <<>>
               /\ Res.meta.skippedTradeCount = 0
               /\ Res.skippedTradeReasons = <<>>

\* three trades, none of them inside the window [2, 1]
C15_Witness ==
    /\ Returned
    /\ Len(trades) = 3
    /\ options.startTs = Some(2)
    /\ options.endTs = Some(1)
    /\ Res.meta.usedTradeCount = 0
    /\ Res.equity[1].ts = 2

(***************************************************************************)
(* SpecDrops: feeds with zero prices and zero or negative sizes, followed  *)
(* with a positive, zero or negative ratio, or with a budget of 100 or 0.  *)
(***************************************************************************)
DropTrades ==
    {Trade(side, "a1", q[1], Int2Num(q[2]), 0) :
        side \in {"BUY", "SELL"},
        q \in {<<Dec(5, 10), 100>>, <<Int2Num(0), 100>>, <<Dec(5, 10), 0>>,
               <<Dec(5, 10), -100>>}}

DropOptions ==
    {Options(Some(Int2Num(100)), mode[1], mode[2], Undefined, Undefined, Undefined) :
        mode \in {<<Some(Int2Num(1)), Undefined>>, <<Some(Int2Num(0)), Undefined>>,
                  <<Some(Int2Num(-1)), Undefined>>, <<Undefined, Some(Int2Num(100))>>,
                  <<Undefined, Some(Int2Num(0))>>}}

InitDrops == InitWith({Stamped(l) : l \in ListsUpTo(DropTrades, MaxTrades)}, DropOptions)

SpecDrops == InitDrops /\ [][Next]_vars

\* the desired followed quantity of the current trade is computed and is <= 0
CurQtyNonPositive == ~desiredQtyAbsThrows(CurTrade, CurPrice) /\ CurRawQty <= 0

\* the step leaves the books and the skip records as they were
NoRecord ==
    /\ cash' = cash
    /\ positions' = positions
    /\ skippedTradeCount' = skippedTradeCount
    /\ partialFillCount' = partialFillCount
    /\ skippedTradeReasons' = skippedTradeReasons

(***************************************************************************)
(* C16: silent drop: a selected trade whose scaled price is <= 0 or whose  *)
(* desired followed quantity is <= 0 is dropped without any record: the    *)
(* replay goes on with cash, positions, skippedTradeCount,                 *)
(* partialFillCount and skippedTradeReasons unchanged.                     *)
(***************************************************************************)
C16_SilentDrop ==
    [][(AtTrade /\ Iterated /\ (CurPrice <= 0 \/ CurQtyNonPositive)) =>
           (pc' = "loop" /\ NoRecord)]_vars

(***************************************************************************)
(* C17: promise of the README (line 41): a trade with an invalid price or  *)
(* an invalid quantity is recorded as a skip reason, like a trade skipped  *)
(* for insufficient funds: while the log is under its cap, each such trade *)
(* that the replay survives adds an entry to skippedTradeReasons.          *)
(***************************************************************************)
C17_InvalidTradesRecorded ==
    [][(/\ AtTrade /\ Iterated /\ pc' = "loop"
        /\ (CurPrice <= 0 \/ CurQtyNonPositive)
        /\ Len(skippedTradeReasons) < SkipReasonCap) =>
           Len(skippedTradeReasons') = Len(skippedTradeReasons) + 1]_vars

(***************************************************************************)
(* SpecSkips: feeds of SkipReasonCap - 1 to SkipReasonCap + MaxOverflow    *)
(* trades that are all skipped: SELLs without a position, or BUYs that an  *)
(* empty account cannot afford, with and without partial fills.            *)
(***************************************************************************)
SkipFeed(side, n) ==
    [j \in 1..n |-> Trade(side, "a1", Dec(5, 10), Int2Num(100), j)]

SkipOptions ==
    {Options(Some(Int2Num(0)), Some(Int2Num(1)), Undefined, Undefined, Undefined,
             Some(partial)) : partial \in BOOLEAN}

InitSkips ==
    InitWith({SkipFeed(side, n) : side \in {"BUY", "SELL"},
                                  n \in (SkipReasonCap - 1)..(SkipReasonCap + MaxOverflow)},
             SkipOptions)

SpecSkips == InitSkips /\ [][Next]_vars

Min(a, b) == IF a <= b THEN a ELSE b

\* the log holds the reasons of the first skipped trades, in processing order
FirstSkipsLogged ==
    /\ Len(skippedTradeReasons) <= SkipReasonCap
    /\ Len(skippedTradeReasons) = Min(skippedTradeCount, SkipReasonCap)
    /\ \A j \in 1..Len(skippedTradeReasons) :
           /\ skippedTradeReasons[j].ts = normalizedTrades[j].timestamp
           /\ skippedTradeReasons[j].key = marketKey(normalizedTrades[j])
           /\ (skippedTradeReasons[j].kind = "SELL_NO_POSITION")
                  = (normalizedTrades[j].side = "SELL")

(***************************************************************************)
(* C18: the skip-reason log never holds more than 200 entries and always   *)
(* consists of the reasons of the first min(skippedTradeCount, 200) skips  *)
(* in processing order; once it holds 200 entries it never changes again,  *)
(* while skippedTradeCount keeps counting every further skip.              *)
(***************************************************************************)
C18_SkipLogCap ==
    [][/\ FirstSkipsLogged'
       /\ pc' \in {"loop", "done"} => skippedTradeCount' = idx' - 1
       /\ (pc = "loop" /\ Len(skippedTradeReasons) = SkipReasonCap) =>
              skippedTradeReasons' = skippedTradeReasons
       /\ Returned' =>
              /\ result'[1].skippedTradeReasons = skippedTradeReasons'
              /\ result'[1].meta.skippedTradeCount = skippedTradeCount']_vars

\* a replay with more skips than the log can hold
C18_Witness ==
    /\ Returned
    /\ Res.meta.skippedTradeCount = SkipReasonCap + 2
    /\ Len(Res.skippedTradeReasons) = SkipReasonCap
    /\ Res.skippedTradeReasons[SkipReasonCap].ts = SkipReasonCap

(***************************************************************************)
(* SpecModes: every combination of followRatio (absent, 0.5, 2) and        *)
(* followNotionalUsd (absent, 100, 0), the window starting with the first  *)
(* trade; after a replay the caller replays the feed with another          *)
(* followRatio.                                                            *)
(***************************************************************************)
ModeTrades ==
    {Trade(side, "a1", Dec(5, 10), Int2Num(size), 0) :
        side \in {"BUY", "SELL"}, size \in {100, 10}}

ModeRatios == {Undefined, Some(Dec(5, 10)), Some(Int2Num(2))}

ModeOptions ==
    {Options(Some(Int2Num(10000)), ratio, notional, Some(1), Undefined, Undefined) :
        ratio \in ModeRatios, notional \in {Undefined, Some(Int2Num(100)), Some(Int2Num(0))}}

InitModes == InitWith({Stamped(l) : l \in ListsUpTo(ModeTrades, MaxTrades)}, ModeOptions)

CallerChangesRatio ==
    /\ pc = "done"
    /\ Len(history) < MaxReruns
    /\ \E ratio \in ModeRatios \ {options.followRatio} :
           options' = [options EXCEPT !.followRatio = ratio]
    /\ history' = Append(history, result[1])
    /\ result' = Undefined
    /\ pc' = "ready"
    /\ UNCHANGED <<trades, normalizedTrades, idx, cash, positions,
                   markedValueByKey, markedSum, realized, equity, skippedTradeCount,
                   partialFillCount, skippedTradeReasons, localStorage>>

NextModes == Next \/ CallerChangesRatio

SpecModes == InitModes /\ [][NextModes]_vars

Supplied == options.followNotionalUsd # Undefined

\* the quantity the current BUY adds to the holding
BoughtQty == MapGet(positions', CurKey, NewPosition).qty - CurHeld.qty

(***************************************************************************)
(* C19: the mode is 'fixed' exactly when options.followNotionalUsd is      *)
(* supplied and 'ratio' otherwise; meta.followNotionalUsd is populated in  *)
(* fixed mode only; in fixed mode a replay with another followRatio        *)
(* returns the same result but for meta.followRatio and a covered BUY adds *)
(* budget / price; in ratio mode it adds source size x followRatio.        *)
(***************************************************************************)
C19_SizingMode ==
    [][/\ Returned' =>
              /\ result'[1].meta.followMode = (IF Supplied THEN "fixed" ELSE "ratio")
              /\ (result'[1].meta.followNotionalUsd # Undefined) = Supplied
              /\ Supplied => result'[1].meta.followNotionalUsd = options.followNotionalUsd
              /\ Supplied =>
                     \A j \in 1..Len(history') :
                         [result'[1] EXCEPT !.meta.followRatio = history'[j].meta.followRatio]
                             = history'[j]
       /\ (AtTrade /\ Iterated /\ CurTrade.side = "BUY") =>
              IF Supplied
              THEN BoughtQty = MulDivQR(toScaled(options.followNotionalUsd[1]), SCALE,
                                        CurPrice)[1]
              ELSE BoughtQty = toScaled(NumMul(CurTrade.size,
                                               OrElse(options.followRatio, Int2Num(1))))]_vars

\* fixed mode replayed with two ratios: the same fills
C19_Witness ==
    /\ Returned
    /\ Len(history) > 0
    /\ Supplied
    /\ Res.meta.followMode = "fixed"
    /\ Res.meta.followRatio # history[1].meta.followRatio
    /\ Len(Res.realized) >= 1
    /\ Res.realized = history[1].realized

NextHeld == MapGet(positions', CurKey, NewPosition)

(***************************************************************************)
(* C20: after every processed trade every position whose quantity is 0    *)
(* has average entry price 0: a SELL that brings the quantity to exactly 0 *)
(* resets the average, and a BUY that reopens the key starts with average  *)
(* entry price equal to that BUY's price.                                  *)
(***************************************************************************)
C20_FlatPositionHasNoBasis ==
    [][/\ \A k \in DOMAIN positions' :
              positions'[k].qty = 0 => positions'[k].avgPrice = 0
       /\ (AtTrade /\ Iterated /\ CurTrade.side = "SELL" /\ CurHeld.qty > 0
               /\ NextHeld.qty = 0) =>
              NextHeld.avgPrice = 0
       /\ (AtTrade /\ Iterated /\ CurTrade.side = "BUY" /\ CurHeld.qty = 0
               /\ NextHeld.qty > 0) =>
              NextHeld.avgPrice = CurPrice]_vars

\* a position bought, sold in full and bought again at another price
C20_Witness ==
    /\ Returned
    /\ Len(trades) = 3
    /\ trades[1].side = "BUY" /\ trades[2].side = "SELL" /\ trades[3].side = "BUY"
    /\ trades[1].size = trades[2].size
    /\ trades[1].price # trades[3].price
    /\ options.followNotionalUsd = Undefined
    /\ Len(realized) = 1
    /\ partialFillCount = 0
    /\ skippedTradeCount = 0
    /\ HeldQty(marketKey(trades[3])) > 0
    /\ positions[marketKey(trades[3])].avgPrice = toScaled(trades[3].price)

(***************************************************************************)
(* SpecLedger: two markets, a price whose products are not exact in four   *)
(* decimals (0.3333) next to one whose are (0.4); a capital that the first *)
(* BUY uses up exactly (40), one that the second BUY exceeds (70), and a   *)
(* budget of 20 per trade.                                                 *)
(***************************************************************************)
LedgerTrades ==
    {Trade(side, asset, price, Int2Num(100), 0) :
        side \in {"BUY", "SELL"}, asset \in {"a1", "a2"},
        price \in {Dec(4, 10), Dec(3333, 10000)}}

LedgerOptions ==
    {Options(Some(Int2Num(40)), Some(Int2Num(1)), Undefined, Undefined, Undefined, Some(TRUE)),
     Options(Some(Int2Num(40)), Some(Int2Num(1)), Undefined, Undefined, Undefined, Some(FALSE)),
     Options(Some(Int2Num(70)), Some(Int2Num(1)), Undefined, Undefined, Undefined, Some(TRUE)),
     Options(Some(Int2Num(40)), Undefined, Some(Int2Num(20)), Undefined, Undefined, Some(TRUE))}

InitLedger == InitWith({Stamped(l) : l \in ListsUpTo(LedgerTrades, MaxTrades)}, LedgerOptions)

SpecLedger == InitLedger /\ [][Next]_vars

\* (oldAvg x oldQty + price x addQty) / newQty in BigInt: the quotient is truncated
WeightedAvg(oldAvg, oldQty, price, addQty) ==
    LET newQty == oldQty + addQty
        p1     == MulDivQR(oldAvg, oldQty, newQty)
        p2     == MulDivQR(price, addQty, newQty)
    IN  p1[1] + p2[1] + ((p1[2] + p2[2]) \div newQty)

\* the average entry price after the current BUY has added addQty
AvgAfterBuy(addQty) ==
    IF CurHeld.qty = 0 THEN CurPrice
    ELSE WeightedAvg(CurHeld.avgPrice, CurHeld.qty, CurPrice, addQty)

BuyWithinCash ==
    /\ CurExecuted
    /\ CurTrade.side = "BUY"
    /\ CurNotional <= cash

(***************************************************************************)
(* C21: a BUY whose notional (price x desired quantity, in fixed point) is *)
(* <= the cash, a notional equal to the cash included, is filled in full:  *)
(* the holding grows by the desired quantity, the average entry price      *)
(* becomes (oldAvg x oldQty + price x filledQty) / newQty (the trade price *)
(* when oldQty = 0), the cash falls by the notional, and neither           *)
(* skippedTradeCount nor partialFillCount changes.                         *)
(***************************************************************************)
C21_BuyFullFill ==
    [][(Iterated /\ BuyWithinCash) =>
          /\ pc' = "loop"
          /\ NextHeld.qty = CurHeld.qty + CurRawQty
          /\ NextHeld.avgPrice = AvgAfterBuy(CurRawQty)
          /\ cash' = cash - MulDivQR(CurPrice, CurRawQty, SCALE)[1]
          /\ skippedTradeCount' = skippedTradeCount
          /\ partialFillCount' = partialFillCount
          /\ skippedTradeReasons' = skippedTradeReasons
          /\ realized' = realized]_vars

\* budget 20, capital 40: the second BUY, on an open position, costs exactly
\* the cash that is left
C21_Witness ==
    /\ Returned
    /\ Len(trades) = 2
    /\ trades[1].side = "BUY" /\ trades[2].side = "BUY"
    /\ marketKey(trades[1]) = marketKey(trades[2])
    /\ Len(equity) = 2
    /\ equity[1].cash > 0
    /\ cash = 0
    /\ partialFillCount = 0
    /\ skippedTradeCount = 0

\* cash / price in BigInt: the quantity the cash can buy at the current price
Affordable == MulDivQR(cash, SCALE, CurPrice)[1]

(***************************************************************************)
(* C22: with partial fills allowed, a BUY whose notional exceeds the cash  *)
(* is a recorded skip when the affordable quantity cash / price is <= 0;   *)
(* otherwise the holding grows by exactly that quantity, the cash becomes  *)
(* 0, the average price follows the weighted formula, partialFillCount     *)
(* grows by one and skippedTradeCount and skippedTradeReasons are          *)
(* unchanged.                                                              *)
(***************************************************************************)
C22_BuyPartialFill ==
    [][(Iterated /\ BuyBeyondCash) =>
          /\ pc' = "loop"
          /\ realized' = realized
          /\ IF Affordable <= 0
             THEN /\ skippedTradeCount' = skippedTradeCount + 1
                  /\ ReasonAppended("BUY_ZERO_AFFORDABLE")
                  /\ partialFillCount' = partialFillCount
                  /\ cash' = cash
                  /\ PositionsKept
             ELSE /\ NextHeld.qty = CurHeld.qty + Affordable
                  /\ NextHeld.avgPrice = AvgAfterBuy(Affordable)
                  /\ cash' = 0
                  /\ partialFillCount' = partialFillCount + 1
                  /\ skippedTradeCount' = skippedTradeCount
                  /\ skippedTradeReasons' = skippedTradeReasons]_vars

\* capital 70: a full BUY, a BUY reduced to what the cash affords, and a BUY
\* for which nothing is left
C22_Witness ==
    /\ Returned
    /\ Len(trades) = 3
    /\ \A j \in 1..3 : trades[j].side = "BUY" /\ marketKey(trades[j]) = marketKey(trades[1])
    /\ trades[1].price # trades[2].price
    /\ partialFillCount = 1
    /\ skippedTradeCount = 1
    /\ skippedTradeReasons[1].kind = "BUY_ZERO_AFFORDABLE"
    /\ equity[1].cash > 0
    /\ cash = 0

SellOnHolding ==
    /\ CurExecuted
    /\ CurTrade.side = "SELL"
    /\ CurHeld.qty > 0

\* min(desired quantity, held quantity)
Sold == Min(CurRawQty, CurHeld.qty)

\* (exit price - entry price) x quantity in fixed point, truncated toward zero
PnlOf(exit, entry, qty) ==
    Sign(exit - entry) * MulDivQR(Abs(exit - entry), qty, SCALE)[1]

(***************************************************************************)
(* C23: a SELL on a key with held quantity > 0 sells min(desired, held);   *)
(* partialFillCount grows by one iff the desired quantity exceeded the     *)
(* holding; the cash grows by price x sellQty; exactly one realized event  *)
(* is appended, with quantity sellQty, entry price the average before the  *)
(* sale, exit price the trade price and P&L (exit - entry) x sellQty; the  *)
(* holding shrinks by sellQty.                                             *)
(***************************************************************************)
C23_SellExecution ==
    [][(Iterated /\ SellOnHolding) =>
          /\ pc' = "loop"
          /\ NextHeld.qty = CurHeld.qty - Sold
          /\ partialFillCount' =
                 partialFillCount + (IF CurRawQty > CurHeld.qty THEN 1 ELSE 0)
          /\ cash' = cash + MulDivQR(CurPrice, Sold, SCALE)[1]
          /\ Len(realized') = Len(realized) + 1
          /\ SubSeq(realized', 1, Len(realized)) = realized
          /\ Last(realized').key = CurKey
          /\ Last(realized').ts = CurTrade.timestamp
          /\ Last(realized').qty = toNumber(Sold)
          /\ Last(realized').entryPrice = toNumber(CurHeld.avgPrice)
          /\ Last(realized').exitPrice = toNumber(CurPrice)
          /\ Last(realized').pnlUsd = toNumber(PnlOf(CurPrice, CurHeld.avgPrice, Sold))
          /\ skippedTradeCount' = skippedTradeCount
          /\ skippedTradeReasons' = skippedTradeReasons]_vars

\* a holding built by two BUYs at two prices is sold in part, at a loss
C23_Witness ==
    /\ Returned
    /\ Len(trades) = 3
    /\ trades[1].side = "BUY" /\ trades[2].side = "BUY" /\ trades[3].side = "SELL"
    /\ trades[1].price # trades[2].price
    /\ Len(realized) = 1
    /\ realized[1].pnlUsd.n < 0
    /\ HeldQty(marketKey(trades[3])) > 0
    /\ partialFillCount = 0

\* the current trade is a recorded skip
RecordedSkip ==
    \/ BuyUnaffordable
    \/ (BuyBeyondCash /\ Affordable <= 0)
    \/ SellNothingHeld

\* no key but the current one changes its position
OtherKeysKept ==
    \A k \in (DOMAIN positions \cup DOMAIN positions') \ {CurKey} :
        /\ k \in DOMAIN positions
        /\ k \in DOMAIN positions'
        /\ positions'[k] = positions[k]
        /\ MapGet(markedValueByKey', k, 0) = MapGet(markedValueByKey, k, 0)

(***************************************************************************)
(* C24: every recorded skip (insufficient-cash BUY, zero-affordable BUY,   *)
(* SELL without position) leaves the cash and every held quantity and      *)
(* average price unchanged, sets the key's last observed price to the      *)
(* trade's price, re-marks the key's holding at it and appends an equity   *)
(* point: the equity changes by the re-marking of that holding and by      *)
(* nothing else.                                                           *)
(***************************************************************************)
C24_SkipFrame ==
    [][(Iterated /\ RecordedSkip) =>
          /\ pc' = "loop"
          /\ skippedTradeCount' = skippedTradeCount + 1
          /\ cash' = cash
          /\ PositionsKept
          /\ OtherKeysKept
          /\ NextHeld.lastPrice = CurPrice
          /\ MapGet(markedValueByKey', CurKey, 0)
                 = MulDivQR(CurPrice, CurHeld.qty, SCALE)[1]
          /\ Len(equity') = Len(equity) + 1
          /\ Last(equity').ts = CurTrade.timestamp
          /\ Last(equity').cash = cash
          /\ Last(equity').equity - (cash + markedSum)
                 = MulDivQR(CurPrice, CurHeld.qty, SCALE)[1]
                       - MapGet(markedValueByKey, CurKey, 0)
          /\ realized' = realized
          /\ partialFillCount' = partialFillCount]_vars

\* a holding bought at one price is re-marked by a skipped BUY at another price
C24_Witness ==
    /\ Returned
    /\ Len(trades) = 2
    /\ trades[1].side = "BUY" /\ trades[2].side = "BUY"
    /\ marketKey(trades[1]) = marketKey(trades[2])
    /\ skippedTradeCount = 1
    /\ partialFillCount = 0
    /\ equity[2].equity # equity[1].equity
    /\ equity[2].cash = equity[1].cash
    /\ positions[marketKey(trades[1])].lastPrice = toScaled(trades[2].price)
    /\ positions[marketKey(trades[1])].avgPrice = toScaled(trades[1].price)

(***************************************************************************)
(* C27: position isolation: processing a trade for key K never changes the *)
(* held quantity, the average entry price, the last observed price or the  *)
(* mark value of any other key; only K's position and the shared cash      *)
(* (and with them the running mark sum, by K's mark) can change.           *)
(***************************************************************************)
C27_PositionIsolation ==
    [][(Iterated /\ AtTrade) =>
          /\ OtherKeysKept
          /\ DOMAIN positions' \subseteq DOMAIN positions \cup {CurKey}
          /\ markedSum' - markedSum
                 = MapGet(markedValueByKey', CurKey, 0) - MapGet(markedValueByKey, CurKey, 0)]_vars

\* both markets are held; the last trade moved one of them to another price
C27_Witness ==
    /\ Returned
    /\ Len(trades) = 3
    /\ Cardinality(DOMAIN positions) = 2
    /\ \A k \in DOMAIN positions : positions[k].qty > 0
    /\ marketKey(trades[3]) = marketKey(trades[1])
    /\ marketKey(trades[2]) # marketKey(trades[1])
    /\ trades[3].price # trades[2].price
    /\ positions[marketKey(trades[2])].lastPrice = toScaled(trades[2].price)
    /\ positions[marketKey(trades[3])].lastPrice = toScaled(trades[3].price)

\* the current BUY is filled, in full or in part, on a key with nothing held
BuyOpensPosition ==
    /\ CurExecuted
    /\ CurTrade.side = "BUY"
    /\ CurHeld.qty = 0
    /\ NextHeld.qty > 0

\* total equity before and after the step
EquityBefore == cash + markedSum

EquityAfter == cash' + markedSum'

(***************************************************************************)
(* C28 as stated: for every BUY, fully or partially filled, on a key with  *)
(* no prior holding, the total equity after the fill equals the total      *)
(* equity before it.                                                       *)
(***************************************************************************)
C28_Original ==
    [][(Iterated /\ BuyOpensPosition) => EquityAfter = EquityBefore]_vars

(***************************************************************************)
(* C28 amended: a BUY filled in full on a key with no prior holding leaves *)
(* the total equity unchanged; a partial fill spends all the cash on       *)
(* floor(cash / price) shares, so the equity does not rise and falls by    *)
(* cash - floor4(price x acquired quantity), which is less than            *)
(* 0.0001 x (1 + price).                                                   *)
(***************************************************************************)
C28_BuyKeepsValue ==
    [][(Iterated /\ BuyOpensPosition) =>
          IF CurNotional <= cash
          THEN EquityAfter = EquityBefore
          ELSE /\ EquityAfter <= EquityBefore
               /\ EquityBefore - EquityAfter
                      = cash - MulDivQR(CurPrice, Affordable, SCALE)[1]
               /\ (EquityBefore - EquityAfter) * SCALE < SCALE + CurPrice]_vars

\* capital 70: 40 buy the first market; the remaining 30 buy 90.0090 shares of the
\* second at 0.3333, worth 29.9999
C28_Witness ==
    /\ Returned
    /\ Len(trades) = 2
    /\ trades[1].side = "BUY" /\ trades[2].side = "BUY"
    /\ marketKey(trades[1]) # marketKey(trades[2])
    /\ partialFillCount = 1
    /\ equity[1].equity = toScaled(initialCapitalUsd)
    /\ equity[2].equity = equity[1].equity - 1
    /\ cash = 0

Max(a, b) == IF a >= b THEN a ELSE b

\* the current BUY is filled, in full or in part
BuyFilled ==
    /\ CurExecuted
    /\ CurTrade.side = "BUY"
    /\ NextHeld.qty > CurHeld.qty

(***************************************************************************)
(* C29: cost-basis bounds: after every BUY fill (full or partial) on an    *)
(* open position the new average entry price lies between the minimum and  *)
(* the maximum of the previous average and the trade price; after a BUY on *)
(* a flat key it is the trade price; every position with held quantity > 0 *)
(* has an average entry price > 0.                                         *)
(***************************************************************************)
C29_CostBasisBounds ==
    [][/\ (Iterated /\ BuyFilled) =>
              IF CurHeld.qty = 0
              THEN NextHeld.avgPrice = CurPrice
              ELSE /\ NextHeld.avgPrice >= Min(CurHeld.avgPrice, CurPrice)
                   /\ NextHeld.avgPrice <= Max(CurHeld.avgPrice, CurPrice)
       /\ \A k \in DOMAIN positions' :
              positions'[k].qty > 0 => positions'[k].avgPrice > 0]_vars

\* two BUYs at two prices on one key: the average lies strictly between them
C29_Witness ==
    /\ Returned
    /\ Len(trades) = 2
    /\ trades[1].side = "BUY" /\ trades[2].side = "BUY"
    /\ marketKey(trades[1]) = marketKey(trades[2])
    /\ positions[marketKey(trades[1])].avgPrice
           > Min(toScaled(trades[1].price), toScaled(trades[2].price))
    /\ positions[marketKey(trades[1])].avgPrice
           < Max(toScaled(trades[1].price), toScaled(trades[2].price))

\* the current trade is a SELL on which the engine counts a skip
SellSkipped ==
    /\ AtTrade
    /\ CurTrade.side = "SELL"
    /\ skippedTradeCount' = skippedTradeCount + 1

(***************************************************************************)
(* C30: the 'SELL quantity is zero' branch is unreachable: a SELL that     *)
(* passes the no-position check (held quantity > 0) has a desired quantity *)
(* > 0 and sells a quantity > 0; every recorded SELL skip is a no-position *)
(* skip.                                                                   *)
(***************************************************************************)
C30_NoZeroQtySellSkip ==
    [][/\ (Iterated /\ SellSkipped) =>
              /\ CurHeld.qty = 0
              /\ ReasonAppended("SELL_NO_POSITION")
       /\ (Iterated /\ AtTrade /\ CurTrade.side = "SELL" /\ CurHeld.qty > 0) =>
              \/ (CurPrice <= 0 \/ CurQtyNonPositive) /\ NoRecord /\ pc' = "loop"
              \/ pc' = "thrown"
              \/ /\ CurRawQty > 0
                 /\ Sold > 0
                 /\ Len(realized') = Len(realized) + 1
                 /\ skippedTradeCount' = skippedTradeCount
       /\ \A j \in 1..Len(skippedTradeReasons') :
              skippedTradeReasons'[j].kind # "SELL_ZERO_QTY"]_vars

\* a SELL of size 0 on a held key: dropped before the sell branches
C30_Witness ==
    /\ Returned
    /\ Len(trades) = 3
    /\ trades[1].side = "BUY" /\ trades[2].side = "SELL" /\ trades[3].side = "SELL"
    /\ trades[2].size = Int2Num(0)
    /\ trades[3].size = Int2Num(100)
    /\ options.followRatio = Some(Int2Num(1))
    /\ Len(equity) = 2
    /\ Len(realized) = 1
    /\ skippedTradeCount = 0

(***************************************************************************)
(* SpecMarkets: feeds of up to MaxMarketTrades trades on two markets, with *)
(* sales at a gain, at a loss and at the entry price, so that a market can *)
(* have several realized events.                                           *)
(***************************************************************************)
MarketTrades ==
    {Trade("BUY", "a1", Dec(4, 10), Int2Num(100), 0),
     Trade("BUY", "a2", Dec(4, 10), Int2Num(100), 0),
     Trade("SELL", "a1", Dec(5, 10), Int2Num(50), 0),
     Trade("SELL", "a1", Dec(3, 10), Int2Num(50), 0),
     Trade("SELL", "a2", Dec(4, 10), Int2Num(50), 0)}

MarketOptions ==
    {Options(Some(Int2Num(10000)), Some(Int2Num(1)), Undefined, Undefined, Undefined, Undefined)}

InitMarkets ==
    InitWith({Stamped(l) : l \in ListsUpTo(MarketTrades, MaxMarketTrades)}, MarketOptions)

SpecMarkets == InitMarkets /\ [][Next]_vars

EventsOf(key) == SelectSeq(Res.realized, LAMBDA r : r.key = key)

RowsOf(key) == SelectSeq(Res.pnlByMarket, LAMBDA row : row.key = key)

RECURSIVE SumRowPnl(_)
SumRowPnl(rows) ==
    IF Len(rows) = 0 THEN 0 ELSE rows[1].realizedPnlUsd.n + SumRowPnl(Tail(rows))

RECURSIVE SumRowCount(_)
SumRowCount(rows) ==
    IF Len(rows) = 0 THEN 0 ELSE rows[1].realizedCount + SumRowCount(Tail(rows))

(***************************************************************************)
(* C25: pnlByMarket has exactly one row per key that appears in the        *)
(* realized events; a row's realized P&L, count and win count are the sum, *)
(* the number and the number with P&L > 0 of the key's events; the rows    *)
(* are ordered by non-increasing P&L; the counts add up to the number of   *)
(* realized events and the P&Ls to the total realized P&L.                 *)
(***************************************************************************)
C25_PnlByMarketRows ==
    Returned =>
        /\ \A j \in 1..Len(Res.realized) : Len(RowsOf(Res.realized[j].key)) = 1
        /\ \A p \in 1..Len(Res.pnlByMarket) :
               LET row  == Res.pnlByMarket[p]
                   mine == EventsOf(row.key)
               IN  /\ Len(mine) > 0
                   /\ Len(RowsOf(row.key)) = 1
                   /\ NumEq(row.realizedPnlUsd, toNumber(SumPnlUsd(mine)))
                   /\ row.realizedCount = Len(mine)
                   /\ row.winCount = Cardinality({j \in 1..Len(mine) : mine[j].pnlUsd.n > 0})
        /\ \A p \in 1..(Len(Res.pnlByMarket) - 1) :
               Res.pnlByMarket[p].realizedPnlUsd.n >= Res.pnlByMarket[p + 1].realizedPnlUsd.n
        /\ SumRowCount(Res.pnlByMarket) = Len(Res.realized)
        /\ SumRowPnl(Res.pnlByMarket) = SumPnlUsd(Res.realized)

\* two rows: the market that realized first, with two sales at a loss, comes
\* behind the market with one sale at its entry price (P&L 0, not a win)
C25_Witness ==
    /\ Returned
    /\ Len(Res.realized) = 3
    /\ Len(Res.pnlByMarket) = 2
    /\ Res.pnlByMarket[1].key # Res.realized[1].key
    /\ Res.pnlByMarket[1].realizedPnlUsd.n > Res.pnlByMarket[2].realizedPnlUsd.n
    /\ Res.pnlByMarket[1].realizedCount = 1
    /\ Res.pnlByMarket[1].winCount = 0
    /\ Res.pnlByMarket[2].realizedCount = 2

(***************************************************************************)
(* SpecCache: the memoization of CopyTradeSimulator                         *)
(* (src/src/components/CopyTradeSimulator.tsx, lines 317-380).  trades is   *)
(* props.trades, options the settings handed to the engine (lines 352-359), *)
(* localStorage the stored results.  A render either serves the stored      *)
(* result of cacheKey (ServeCached) or runs the engine and stores what it   *)
(* returned (CallEngine ... Finish, WriteComputed).  Between renders a poll *)
(* merges an incoming trade into the list (useWatchlistPolling.ts, lines    *)
(* 49-54) or the user changes a setting.  One user, history window opened   *)
(* at timestamp 1 (backtest mode), a transactionHash on no trade.           *)
(***************************************************************************)
CacheTrades ==
    {Trade(side, asset, Dec(5, 10), Int2Num(100), ts) :
        side \in {"BUY", "SELL"}, asset \in {"a1", "a2"}, ts \in {1, 2}}

CacheOptions ==
    {Options(Some(Int2Num(capital)), Some(Int2Num(1)), Undefined, Some(1), Undefined, Some(TRUE)) :
        capital \in {40, 10000}}

engineVars == <<normalizedTrades, idx, cash, positions, markedValueByKey, markedSum,
                realized, equity, skippedTradeCount, partialFillCount,
                skippedTradeReasons>>

\* (t) => `${t.timestamp}:${t.transactionHash ?? ''}:${t.asset}`
keySelector(t) == <<t.timestamp, t.asset>>

\* the order of the asset ids as strings
AssetOrder(asset) == IF asset = "a1" THEN 1 ELSE 2

\* ka < kb of the key strings; the timestamps have the same number of digits
KeyBefore(ka, kb) ==
    \/ ka[1] < kb[1]
    \/ ka[1] = kb[1] /\ AssetOrder(ka[2]) < AssetOrder(kb[2])

\* storage.ts, lines 24-42: the later item wins a key, the items are sorted
\* by key and the last maxSize of them are kept
mergeUniqueByKey(existing, incoming, maxSize) ==
    LET all       == existing \o incoming
        keys      == {keySelector(all[j]) : j \in 1..Len(all)}
        lastOf(k) == all[CHOOSE j \in 1..Len(all) :
                            /\ keySelector(all[j]) = k
                            /\ \A i \in (j + 1)..Len(all) : keySelector(all[i]) # k]
        rank(k)   == Cardinality({x \in keys : KeyBefore(x, k)}) + 1
        merged    == [p \in 1..Cardinality(keys) |-> lastOf(CHOOSE k \in keys : rank(k) = p)]
        from      == Max(0, Len(merged) - maxSize)
    IN  SubSeq(merged, from + 1, Len(merged))

\* CopyTradeSimulator.tsx, lines 40-43
clampNumber(value, min, max, fallback) ==
    IF ~IsFinite(value) THEN fallback
    ELSE IF value.n < min * value.d THEN Int2Num(min)
    ELSE IF \/ value.n \div value.d > max
            \/ value.n \div value.d = max /\ value.n % value.d > 0
         THEN Int2Num(max)
    ELSE value

\* line 230: props.trades.reduce((acc, t) => Math.max(acc, t.timestamp), 0)
latestTradeTs ==
    LET stamps == {trades[j].timestamp : j \in 1..Len(trades)} \cup {0}
    IN  CHOOSE m \in stamps : \A x \in stamps : x <= m

\* lines 317-332: the JSON of the key; user, v, runMode and liveStartTs are
\* the same in every state of SpecCache
cacheKey ==
    [initialCapitalUsd |-> clampNumber(OrElse(options.initialCapitalUsd, Int2Num(10000)),
                                       0, 1000000000, Int2Num(10000)),
     followMode |-> followMode,
     followRatio |-> OrElse(options.followRatio, Int2Num(1)),
     followNotionalUsd |-> clampNumber(OrElse(options.followNotionalUsd, Int2Num(100)),
                                       0, 1000000000, Int2Num(100)),
     startTs |-> options.startTs,
     endTs |-> options.endTs,
     allowPartialFills |-> OrElse(options.allowPartialFills, TRUE),
     tradeCount |-> Len(trades),
     latestTradeTs |-> latestTradeTs]

\* line 348: readJson(cacheKey, null) found a stored result
IsCached == cacheKey \in DOMAIN localStorage

\* line 351: the stored result is served, the engine is not called
ServeCached ==
    /\ pc = "ready"
    /\ history = <<>>
    /\ IsCached
    /\ result' = Some(localStorage[cacheKey])
    /\ pc' = "cached"
    /\ UNCHANGED <<trades, options, engineVars, history, localStorage>>

\* lines 352-360: simulateCopyTrades(props.trades, {...}) when nothing is
\* stored for the key, and the run EngineOnCurrent asks for
CallEngine ==
    /\ ~IsCached \/ Len(history) > 0
    /\ Invoke

\* lines 376-380: the effect stores the computed result under the key
WriteComputed ==
    /\ pc = "done"
    /\ ~IsCached
    /\ localStorage' = MapSet(localStorage, cacheKey, Res)
    /\ pc' = "stored"
    /\ UNCHANGED <<trades, options, engineVars, result, history>>

\* useWatchlistPolling.ts, lines 49-54: a poll merges an incoming trade into
\* the list and the list changes
PollingUpdate ==
    /\ pc \in {"cached", "stored"}
    /\ Cardinality(DOMAIN localStorage) <= MaxCached
    /\ \E t \in CacheTrades :
           LET merged == mergeUniqueByKey(trades, <<t>>, MaxKept)
           IN  /\ merged # trades
               /\ trades' = merged
    /\ result' = Undefined
    /\ pc' = "ready"
    /\ UNCHANGED <<options, engineVars, history, localStorage>>

\* lines 236-248: the user changes a setting
SettingsChange ==
    /\ pc \in {"cached", "stored"}
    /\ Cardinality(DOMAIN localStorage) <= MaxCached
    /\ options' \in CacheOptions \ {options}
    /\ result' = Undefined
    /\ pc' = "ready"
    /\ UNCHANGED <<trades, engineVars, history, localStorage>>

\* The comparison run: after a stored result was served, simulateCopyTrades
\* is called with the component's current trade list and settings; history
\* keeps the served result
EngineOnCurrent ==
    /\ pc = "cached"
    /\ history = <<>>
    /\ history' = <<Res>>
    /\ result' = Undefined
    /\ pc' = "ready"
    /\ UNCHANGED <<trades, options, engineVars, localStorage>>

InitCache ==
    InitWith({mergeUniqueByKey(<<>>, l, MaxKept) : l \in ListsUpTo(CacheTrades, MaxKept)},
             CacheOptions)

NextCache ==
    \/ CallEngine
    \/ ProcessTrade
    \/ (\E nowSec \in ClockValues : Finish(nowSec))
    \/ ServeCached
    \/ WriteComputed
    \/ PollingUpdate
    \/ SettingsChange
    \/ EngineOnCurrent

SpecCache == InitCache /\ [][NextCache]_vars

\* the served result stands next to the engine's result on the current inputs
ServedAndRecomputed == Returned /\ Len(history) = 1

(***************************************************************************)
(* C26: whenever a stored result is served for a cache key instead of      *)
(* calling the engine, it equals what simulateCopyTrades returns for the   *)
(* current trade list and settings.                                        *)
(***************************************************************************)
C26_MemoizationCoherence == ServedAndRecomputed => history[1] = Res

====
